---- MODULE Spec2Model ----
(***************************************************************************)
(* Spatial evolutionary Prisoner's Dilemma engine of claudes-corner:      *)
(* the strategy catalog (prisoners-dilemma/strategies.py), the match      *)
(* engine (prisoners-dilemma/game.py), the toroidal grid with its         *)
(* evolution step in its four copies (prisoners-dilemma/spatial.py,       *)
(* spatial-dilemma/grid.py, invasion/invade.py,                           *)
(* phase-transition/explore.py) and the run-to-convergence loops.         *)
(***************************************************************************)
EXTENDS Integers, Sequences, FiniteSets, TLC

VARIABLES
    rng,              \* state of Python's process-wide `random` generator
    m_a, m_b,         \* play_match: the two strategy instances
    history_a, history_b,
    score_a, score_b,
    m_rounds,         \* play_match: its rounds argument
    m_pc,             \* play_match: "idle", "rounds"
    m_played,         \* matches completed with these instances
    m_calls,          \* play_match: calls of choose made by the match under
                      \* way (history variable)
    engine,           \* which copy of the grid engine runs
    width, height,
    rounds_per_match,
    temptation,       \* payoff T (a parameter in explore.py only)
    grid,             \* grid[y][x]: strategy instance
    scores,           \* scores[y][x]
    prev_grid,        \* the grid the last update read (history variable)
    generation,
    pc,               \* grid engine: "score", "update"
    loop,             \* which run-to-convergence loop runs
    generations,      \* the loop's generation ceiling
    gen,              \* Evolution Steps the loop has executed
    prev_census,      \* previous generation's census (or count), "None" at start
    stable,           \* stable / stable_count
    snapshots,        \* the census of every generation so far (main keeps
                      \* this list; run_invasion's history holds each one's
                      \* cooperator count; history variable for run_simulation)
    run_pc,           \* "loop", "break" (stopped early), "exhausted"
    call,             \* the call made from outside the engine: its name
                      \* (op) and arguments
    outcome           \* how that call ended: what it returned or raised

vars == <<rng, m_a, m_b, history_a, history_b, score_a, score_b, m_rounds,
          m_pc, m_played, m_calls, engine, width, height, rounds_per_match,
          temptation, grid, scores, prev_grid, generation, pc, loop,
          generations, gen, prev_census, stable, snapshots, run_pc,
          call, outcome>>

matchVars == <<m_a, m_b, history_a, history_b, score_a, score_b, m_rounds,
               m_pc, m_played, m_calls>>
gridVars  == <<engine, width, height, rounds_per_match, temptation, grid,
               scores, prev_grid, generation, pc>>
runVars   == <<loop, generations, gen, prev_census, stable, snapshots, run_pc>>
callVars  == <<call, outcome>>

----------------------------------------------------------------------------
(* Bounds of the model *)

MaxRounds == 6        \* rounds of one match in the match specification
MaxMatches == 2       \* matches played in a row with the same instances
RngLen == 3           \* length of the (cyclic) random stream
MaxGridRounds == 2    \* rounds per match on the grid
MaxGenerations == 2   \* Evolution Steps taken by the grid specification
MaxCeiling == 5       \* largest generation ceiling of a run-to-convergence loop
MaxRadius == 2        \* largest cluster radius of invade.make_grid
MaxCoord == 4         \* largest |x|, |y| a cell accessor is called with
MaxSamples == 3       \* most samples handed to find_critical_point
MaxParam == 4         \* largest parameter value of a sample
MaxSeeds == 2         \* most seeds per radius of run_sweep

----------------------------------------------------------------------------
(* game.py: actions and payoffs *)

COOPERATE == TRUE
DEFECT == FALSE

\* the payoff matrix with temptation payoff t (explore.py builds it per run)
payoffs(t, my, their) ==
    IF my = COOPERATE
    THEN (IF their = COOPERATE THEN 3 ELSE 0)
    ELSE (IF their = COOPERATE THEN t ELSE 1)

\* a matrix with the sucker's payoff and the temptation exchanged
PAYOFFS_swapped(my, their) ==
    IF my = COOPERATE
    THEN (IF their = COOPERATE THEN 3 ELSE 5)
    ELSE (IF their = COOPERATE THEN 0 ELSE 1)

\* the standard matrix of game.py (and the copy in invade.py)
PAYOFFS(my, their) ==
    IF my = COOPERATE
    THEN (IF their = COOPERATE THEN 3 ELSE 0)
    ELSE (IF their = COOPERATE THEN 5 ELSE 1)

----------------------------------------------------------------------------
(* Python's global random generator.  A seed fixes a stream of draws; the *)
(* state is the stream still to come, kept cyclic so that it never runs   *)
(* dry.  random.random() < 0.1 and random.choice([True, False]) each      *)
(* consume one draw.                                                      *)

RECURSIVE BoolSeqs(_)
BoolSeqs(n) ==
    IF n = 0 THEN {<<>>}
    ELSE {<<b>> \o s : b \in BOOLEAN, s \in BoolSeqs(n - 1)}

RngStates == BoolSeqs(RngLen)

rng_draw(r) == Head(r)
rng_next(r) == Tail(r) \o <<Head(r)>>

----------------------------------------------------------------------------
(* strategies.py: the catalog.  An instance is its class name and its     *)
(* memory: Grudger._betrayed and Detective._exploit.                      *)

ALL_STRATEGIES ==
    <<"Tit for Tat", "Pavlov", "Generous TFT", "Tit for Two Tats",
      "Soft Majority", "Grudger", "Detective", "Hard Majority",
      "Suspicious TFT", "Always Cooperate", "Random", "Always Defect">>

StrategyNames == {ALL_STRATEGIES[i] : i \in 1..Len(ALL_STRATEGIES)}

\* cls(): a fresh instance
new(cls) == [name |-> cls, betrayed |-> FALSE, exploit |-> "None"]

Last(h) == h[Len(h)]

RECURSIVE count_true(_)
count_true(h) ==
    IF h = <<>> THEN 0
    ELSE (IF Head(h) THEN 1 ELSE 0) + count_true(Tail(h))

\* each choose returns the move, the instance after the call and the
\* random generator after the call
Out(move, s, r) == [move |-> move, s |-> s, rng |-> r]

\* an Always Cooperate that plays what the generator draws
AlwaysCooperate_choose_drawn(s, my_history, their_history, r) ==
    Out(rng_draw(r), s, rng_next(r))

AlwaysCooperate_choose(s, my_history, their_history, r) ==
    Out(TRUE, s, r)

\* a Tit for Tat that opens with a defection (not the code's: the deviation
\* the Tit for Tat score property is tested against)
TitForTat_choose_opening_defect(s, my_history, their_history, r) ==
    IF their_history = <<>> THEN Out(FALSE, s, r)
    ELSE Out(Last(their_history), s, r)

TitForTat_choose(s, my_history, their_history, r) ==
    IF their_history = <<>> THEN Out(TRUE, s, r)
    ELSE Out(Last(their_history), s, r)

TitForTwoTats_choose(s, my_history, their_history, r) ==
    IF Len(their_history) < 2 THEN Out(TRUE, s, r)
    ELSE Out(~(Last(their_history) = FALSE
               /\ their_history[Len(their_history) - 1] = FALSE), s, r)

GenerousTitForTat_choose(s, my_history, their_history, r) ==
    IF their_history = <<>> THEN Out(TRUE, s, r)
    ELSE IF Last(their_history) THEN Out(TRUE, s, r)
    ELSE Out(rng_draw(r), s, rng_next(r))

Pavlov_choose(s, my_history, their_history, r) ==
    IF my_history = <<>> THEN Out(TRUE, s, r)
    ELSE Out(Last(my_history) = Last(their_history), s, r)

AlwaysDefect_choose(s, my_history, their_history, r) ==
    Out(FALSE, s, r)

SuspiciousTitForTat_choose(s, my_history, their_history, r) ==
    IF their_history = <<>> THEN Out(FALSE, s, r)
    ELSE Out(Last(their_history), s, r)

\* a Grudger that forgives: it never sets its flag and answers the last move
Grudger_choose_forgiving(s, my_history, their_history, r) ==
    IF their_history # <<>> /\ ~Last(their_history)
    THEN Out(FALSE, s, r)
    ELSE Out(TRUE, s, r)

Grudger_choose(s, my_history, their_history, r) ==
    IF s.betrayed THEN Out(FALSE, s, r)
    ELSE IF their_history # <<>> /\ ~Last(their_history)
    THEN Out(FALSE, [s EXCEPT !.betrayed = TRUE], r)
    ELSE Out(TRUE, s, r)

Detective_opening == <<TRUE, FALSE, TRUE, TRUE>>

Detective_choose(s, my_history, their_history, r) ==
    LET round_num == Len(my_history) IN
    IF round_num < 4 THEN Out(Detective_opening[round_num + 1], s, r)
    ELSE
      LET decided ==
            IF s.exploit = "None"
            THEN (IF \A i \in 1..4 : their_history[i] THEN "True" ELSE "False")
            ELSE s.exploit
          s2 == [s EXCEPT !.exploit = decided]
      IN  IF decided = "True" THEN Out(FALSE, s2, r)
          ELSE Out(Last(their_history), s2, r)

HardMajority_choose(s, my_history, their_history, r) ==
    IF their_history = <<>> THEN Out(FALSE, s, r)
    ELSE LET cooperations == count_true(their_history) IN
         Out(cooperations > Len(their_history) - cooperations, s, r)

\* a Soft Majority that opens like Hard Majority, with a defection
SoftMajority_choose_opening_defect(s, my_history, their_history, r) ==
    IF their_history = <<>> THEN Out(FALSE, s, r)
    ELSE LET cooperations == count_true(their_history) IN
         Out(cooperations >= Len(their_history) - cooperations, s, r)

SoftMajority_choose(s, my_history, their_history, r) ==
    IF their_history = <<>> THEN Out(TRUE, s, r)
    ELSE LET cooperations == count_true(their_history) IN
         Out(cooperations >= Len(their_history) - cooperations, s, r)

Random_choose(s, my_history, their_history, r) ==
    Out(rng_draw(r), s, rng_next(r))

\* s.choose(my_history, their_history): dispatch on the class
choose(s, my_history, their_history, r) ==
    CASE s.name = "Always Cooperate" -> AlwaysCooperate_choose(s, my_history, their_history, r)
      [] s.name = "Tit for Tat"      -> TitForTat_choose(s, my_history, their_history, r)
      [] s.name = "Tit for Two Tats" -> TitForTwoTats_choose(s, my_history, their_history, r)
      [] s.name = "Generous TFT"     -> GenerousTitForTat_choose(s, my_history, their_history, r)
      [] s.name = "Pavlov"           -> Pavlov_choose(s, my_history, their_history, r)
      [] s.name = "Always Defect"    -> AlwaysDefect_choose(s, my_history, their_history, r)
      [] s.name = "Suspicious TFT"   -> SuspiciousTitForTat_choose(s, my_history, their_history, r)
      [] s.name = "Grudger"          -> Grudger_choose(s, my_history, their_history, r)
      [] s.name = "Detective"        -> Detective_choose(s, my_history, their_history, r)
      [] s.name = "Hard Majority"    -> HardMajority_choose(s, my_history, their_history, r)
      [] s.name = "Soft Majority"    -> SoftMajority_choose(s, my_history, their_history, r)
      [] s.name = "Random"           -> Random_choose(s, my_history, their_history, r)

\* a reset that leaves the Detective's decision in place
reset_keeping_exploit(s) ==
    CASE s.name = "Grudger" -> [s EXCEPT !.betrayed = FALSE]
      [] OTHER              -> s

\* s.reset(): Grudger and Detective clear their memory, the others pass
reset(s) ==
    CASE s.name = "Grudger"   -> [s EXCEPT !.betrayed = FALSE]
      [] s.name = "Detective" -> [s EXCEPT !.exploit = "None"]
      [] OTHER                -> s

----------------------------------------------------------------------------
(* game.py: play_match *)

\* lines 42-48: reset both, empty histories, zero scores
match_begin(a, b, r) ==
    [a |-> reset(a), b |-> reset(b), history_a |-> <<>>, history_b |-> <<>>,
     score_a |-> 0, score_b |-> 0, rng |-> r]

\* a round that credits player a only (not the code's: the deviation the
\* mutual-cooperation score property is tested against)
match_round_one_sided(st) ==
    LET ca == choose(st.a, st.history_a, st.history_b, st.rng)
        cb == choose(st.b, st.history_b, st.history_a, ca.rng)
    IN  [a |-> ca.s, b |-> cb.s,
         history_a |-> Append(st.history_a, ca.move),
         history_b |-> Append(st.history_b, cb.move),
         score_a |-> st.score_a + PAYOFFS(ca.move, cb.move),
         score_b |-> st.score_b,
         rng |-> cb.rng]

\* a round in which player b is shown the move player a has just made
match_round_b_sees_move(st) ==
    LET ca == choose(st.a, st.history_a, st.history_b, st.rng)
        cb == choose(st.b, st.history_b, Append(st.history_a, ca.move),
                     ca.rng)
    IN  [a |-> ca.s, b |-> cb.s,
         history_a |-> Append(st.history_a, ca.move),
         history_b |-> Append(st.history_b, cb.move),
         score_a |-> st.score_a + PAYOFFS(ca.move, cb.move),
         score_b |-> st.score_b + PAYOFFS(cb.move, ca.move),
         rng |-> cb.rng]

\* lines 52-59: the body of the round loop
match_round(st) ==
    LET ca == choose(st.a, st.history_a, st.history_b, st.rng)
        cb == choose(st.b, st.history_b, st.history_a, ca.rng)
    IN  [a |-> ca.s, b |-> cb.s,
         history_a |-> Append(st.history_a, ca.move),
         history_b |-> Append(st.history_b, cb.move),
         score_a |-> st.score_a + PAYOFFS(ca.move, cb.move),
         score_b |-> st.score_b + PAYOFFS(cb.move, ca.move),
         rng |-> cb.rng]

RECURSIVE match_loop(_, _)
match_loop(st, n) ==
    IF n <= 0 THEN st ELSE match_loop(match_round(st), n - 1)

play_match(a, b, rounds, r) == match_loop(match_begin(a, b, r), rounds)

\* lines 61-62: sum(history) / rounds if rounds > 0 else 0, kept as the pair
\* (numerator, denominator)
cooperation(history, rounds) ==
    IF rounds > 0 THEN <<count_true(history), rounds>> ELSE <<0, 1>>

\* lines 64-69: the MatchResult returned
MatchResult(sa, sb, rounds, ha, hb) ==
    [kind |-> "return",
     value |-> [score_a |-> sa, score_b |-> sb, rounds |-> rounds,
                cooperation_a |-> cooperation(ha, rounds),
                cooperation_b |-> cooperation(hb, rounds)]]

----------------------------------------------------------------------------
(* The toroidal grid.  grid[y][x] is a strategy instance; a cell of a      *)
(* freshly allocated new_grid holds None.                                  *)

NoneCell == [name |-> "None", betrayed |-> FALSE, exploit |-> "None"]

\* SpatialGrid.at / Grid.get: toroidal read
at(g, w, h, x, y) == g[y % h][x % w]

\* [[v] * w for _ in range(h)]
filled(w, h, v) == [y \in 0..(h - 1) |-> [x \in 0..(w - 1) |-> v]]

\* the offsets (dx, dy) in the order of the loops: dy outer, dx inner,
\* the centre skipped
MooreOffsets ==
    << <<-1, -1>>, <<0, -1>>, <<1, -1>>,
       <<-1,  0>>,            <<1,  0>>,
       <<-1,  1>>, <<0,  1>>, <<1,  1>> >>

\* a neighbourhood that stops at the edges instead of wrapping (not the
\* code's: the deviation the neighbourhood-shape property is tested against)
nth_neighbor_clamped(w, h, x, y, k) ==
    LET nx == x + MooreOffsets[k][1]
        ny == y + MooreOffsets[k][2]
    IN  << IF nx < 0 THEN 0 ELSE IF nx > w - 1 THEN w - 1 ELSE nx,
           IF ny < 0 THEN 0 ELSE IF ny > h - 1 THEN h - 1 ELSE ny >>

\* SpatialGrid.neighbors / Grid.neighbors and the inlined loops of
\* invade.py and explore.py: the sequence of 8 wrapped (x, y) pairs
nth_neighbor(w, h, x, y, k) ==
    << (x + MooreOffsets[k][1]) % w, (y + MooreOffsets[k][2]) % h >>

neighbors(w, h, x, y) == [k \in 1..8 |-> nth_neighbor(w, h, x, y, k)]

\* for y in range(h): for x in range(w): the i-th cell visited, i from 1
cell_x(w, i) == (i - 1) % w
cell_y(w, i) == (i - 1) \div w

\* the cells the loops `for y in range(height): for x in range(width)`
\* visit: none when the width or the height is not positive
cell_count(w, h) == (IF w > 0 THEN w ELSE 0) * (IF h > 0 THEN h ELSE 0)

----------------------------------------------------------------------------
(* Score phase, prisoners-dilemma/spatial.py.  The accumulator carries the *)
(* grid (the instances a call may mutate), the score grid and the random   *)
(* generator.                                                              *)

\* lines 121-123: moves[y][x] = self.at(x, y).choose([], []); acc.i counts
\* the cells done
RECURSIVE SpatialGrid_moves(_, _, _)
SpatialGrid_moves(acc, w, h) ==
    IF acc.i > cell_count(w, h) THEN acc
    ELSE LET x == cell_x(w, acc.i)
             y == cell_y(w, acc.i)
             c == choose(at(acc.grid, w, h, x, y), <<>>, <<>>, acc.rng)
         IN  SpatialGrid_moves(
                 [grid  |-> [acc.grid EXCEPT ![y][x] = c.s],
                  moves |-> [acc.moves EXCEPT ![y][x] = c.move],
                  rng   |-> c.rng,
                  i     |-> acc.i + 1], w, h)

\* lines 127-129: one cell's score from the precomputed moves
RECURSIVE SpatialGrid_fast_sum(_, _, _, _, _, _)
SpatialGrid_fast_sum(moves, w, h, x, y, k) ==
    IF k > 8 THEN 0
    ELSE LET n == nth_neighbor(w, h, x, y, k) IN
         PAYOFFS(moves[y][x], moves[n[2]][n[1]])
           + SpatialGrid_fast_sum(moves, w, h, x, y, k + 1)

\* lines 133-139: one pairing of the slow path, played on deep copies
SpatialGrid_pairing(acc, w, h, rounds, x, y, k) ==
    LET n == nth_neighbor(w, h, x, y, k)
        me == at(acc.grid, w, h, x, y)
        opp == at(acc.grid, w, h, n[1], n[2])
        result == play_match(me, opp, rounds, acc.rng)
    IN  [grid   |-> acc.grid,
         scores |-> [acc.scores EXCEPT ![y][x] = @ + result.score_a],
         rng    |-> result.rng,
         i      |-> acc.i + 1]

RECURSIVE SpatialGrid_slow(_, _, _, _)
SpatialGrid_slow(acc, w, h, rounds) ==
    IF acc.i >= cell_count(w, h) * 8 THEN acc
    ELSE SpatialGrid_slow(
             SpatialGrid_pairing(acc, w, h, rounds, cell_x(w, (acc.i \div 8) + 1),
                 cell_y(w, (acc.i \div 8) + 1), (acc.i % 8) + 1),
             w, h, rounds)

\* SpatialGrid.compute_scores
SpatialGrid_compute_scores(g, w, h, rounds, r) ==
    IF rounds = 1
    THEN LET m == SpatialGrid_moves(
                      [grid |-> g, moves |-> filled(w, h, FALSE), rng |-> r,
                       i |-> 1], w, h)
         IN  [grid   |-> m.grid,
              scores |-> [y \in 0..(h - 1) |-> [x \in 0..(w - 1) |->
                             SpatialGrid_fast_sum(m.moves, w, h, x, y, 1)]],
              rng    |-> m.rng]
    ELSE SpatialGrid_slow([grid |-> g, scores |-> filled(w, h, 0), rng |-> r,
                           i |-> 0], w, h, rounds)

----------------------------------------------------------------------------
(* Score phase of the three other copies: the match is inlined, played on  *)
(* reset deep copies, and only the cell's own score is accumulated.        *)

\* grid.py 99-104, invade.py 116-121, explore.py 127-132: the round loop;
\* st carries a, b, the two histories, the score and the generator
RECURSIVE inline_rounds(_, _, _)
inline_rounds(st, t, n) ==
    IF n <= 0 THEN st
    ELSE LET ma == choose(st.a, st.history_a, st.history_b, st.rng)
             mb == choose(st.b, st.history_b, st.history_a, ma.rng)
         IN  inline_rounds(
                 [a |-> ma.s, b |-> mb.s,
                  history_a |-> Append(st.history_a, ma.move),
                  history_b |-> Append(st.history_b, mb.move),
                  score |-> st.score + payoffs(t, ma.move, mb.move),
                  rng |-> mb.rng], t, n - 1)

\* grid.py 93-98, invade.py 110-115, explore.py 121-126 and the loop
inline_match(cell, neighbor, rounds, t, r) ==
    inline_rounds([a |-> reset(cell), b |-> reset(neighbor),
                   history_a |-> <<>>, history_b |-> <<>>,
                   score |-> 0, rng |-> r], t, rounds)

\* a pairing played by the two cells themselves instead of copies
Grid_pairing_shared(acc, w, h, rounds, x, y, k) ==
    LET n == nth_neighbor(w, h, x, y, k)
        res == inline_match(acc.grid[y][x], acc.grid[n[2]][n[1]], rounds, 5, acc.rng)
    IN  [grid   |-> [acc.grid EXCEPT ![y][x] = res.a, ![n[2]][n[1]] = res.b],
         scores |-> [acc.scores EXCEPT ![y][x] = @ + res.score],
         rng    |-> res.rng,
         i      |-> acc.i + 1]

\* one pairing: cell (x, y) against its k-th neighbour
Grid_pairing(acc, w, h, rounds, x, y, k) ==
    LET n == nth_neighbor(w, h, x, y, k)
        res == inline_match(acc.grid[y][x], acc.grid[n[2]][n[1]], rounds, 5, acc.rng)
    IN  [grid   |-> acc.grid,
         scores |-> [acc.scores EXCEPT ![y][x] = @ + res.score],
         rng    |-> res.rng,
         i      |-> acc.i + 1]

\* a pairing that credits the cell with what its neighbour earns
invade_pairing_neighbour_score(acc, w, h, rounds, x, y, k) ==
    LET n == nth_neighbor(w, h, x, y, k)
        res == inline_match(acc.grid[n[2]][n[1]], acc.grid[y][x], rounds, 5, acc.rng)
    IN  [grid   |-> acc.grid,
         scores |-> [acc.scores EXCEPT ![y][x] = @ + res.score],
         rng    |-> res.rng,
         i      |-> acc.i + 1]

invade_pairing(acc, w, h, rounds, x, y, k) ==
    LET n == nth_neighbor(w, h, x, y, k)
        res == inline_match(acc.grid[y][x], acc.grid[n[2]][n[1]], rounds, 5, acc.rng)
    IN  [grid   |-> acc.grid,
         scores |-> [acc.scores EXCEPT ![y][x] = @ + res.score],
         rng    |-> res.rng,
         i      |-> acc.i + 1]

explore_pairing(acc, w, h, rounds, t, x, y, k) ==
    LET n == nth_neighbor(w, h, x, y, k)
        res == inline_match(acc.grid[y][x], acc.grid[n[2]][n[1]], rounds, t, acc.rng)
    IN  [grid   |-> acc.grid,
         scores |-> [acc.scores EXCEPT ![y][x] = @ + res.score],
         rng    |-> res.rng,
         i      |-> acc.i + 1]

RECURSIVE Grid_play_loop(_, _, _, _)
Grid_play_loop(acc, w, h, rounds) ==
    IF acc.i >= cell_count(w, h) * 8 THEN acc
    ELSE Grid_play_loop(
             Grid_pairing(acc, w, h, rounds, cell_x(w, (acc.i \div 8) + 1),
                 cell_y(w, (acc.i \div 8) + 1), (acc.i % 8) + 1),
             w, h, rounds)

\* Grid.play_round
Grid_play_round(g, w, h, rounds, r) ==
    Grid_play_loop([grid |-> g, scores |-> filled(w, h, 0), rng |-> r,
                    i |-> 0], w, h, rounds)

RECURSIVE invade_score_loop(_, _, _, _)
invade_score_loop(acc, w, h, rounds) ==
    IF acc.i >= cell_count(w, h) * 8 THEN acc
    ELSE invade_score_loop(
             invade_pairing(acc, w, h, rounds, cell_x(w, (acc.i \div 8) + 1),
                 cell_y(w, (acc.i \div 8) + 1), (acc.i % 8) + 1),
             w, h, rounds)

\* invade.compute_scores
invade_compute_scores(g, w, h, rounds, r) ==
    invade_score_loop([grid |-> g, scores |-> filled(w, h, 0), rng |-> r,
                       i |-> 0], w, h, rounds)

RECURSIVE explore_score_loop(_, _, _, _, _)
explore_score_loop(acc, w, h, rounds, t) ==
    IF acc.i >= cell_count(w, h) * 8 THEN acc
    ELSE explore_score_loop(
             explore_pairing(acc, w, h, rounds, t, cell_x(w, (acc.i \div 8) + 1),
                 cell_y(w, (acc.i \div 8) + 1), (acc.i % 8) + 1),
             w, h, rounds, t)

\* explore.compute_scores
explore_compute_scores(g, w, h, rounds, t, r) ==
    explore_score_loop([grid |-> g, scores |-> filled(w, h, 0), rng |-> r,
                        i |-> 0], w, h, rounds, t)

----------------------------------------------------------------------------
(* Update phase: imitate the best of the neighbourhood-plus-self.          *)

\* a scan that never raises best_score: the last neighbour above the cell's
\* own score wins
RECURSIVE scan_best_last_higher(_, _, _, _, _)
scan_best_last_higher(sc, nb, best, best_score, k) ==
    IF k > 8 THEN best
    ELSE IF sc[nb[k][2]][nb[k][1]] > best_score
         THEN scan_best_last_higher(sc, nb, k, best_score, k + 1)
         ELSE scan_best_last_higher(sc, nb, best, best_score, k + 1)

\* a scan that also replaces the running best on an equal score
RECURSIVE scan_best_ge(_, _, _, _, _)
scan_best_ge(sc, nb, best, best_score, k) ==
    IF k > 8 THEN best
    ELSE IF sc[nb[k][2]][nb[k][1]] >= best_score
         THEN scan_best_ge(sc, nb, k, sc[nb[k][2]][nb[k][1]], k + 1)
         ELSE scan_best_ge(sc, nb, best, best_score, k + 1)

\* spatial.py 155-158, grid.py 116-119, invade.py 133-141, explore.py
\* 144-152: scan the neighbours in order from the k-th on; best is the index
\* of the running best (0 is the cell itself), best_score its score
RECURSIVE scan_best(_, _, _, _, _)
scan_best(sc, nb, best, best_score, k) ==
    IF k > 8 THEN best
    ELSE IF sc[nb[k][2]][nb[k][1]] > best_score
         THEN scan_best(sc, nb, k, sc[nb[k][2]][nb[k][1]], k + 1)
         ELSE scan_best(sc, nb, best, best_score, k + 1)

\* the coordinates of the cell whose strategy cell (x, y) adopts
best_cell(sc, w, h, x, y) ==
    LET nb == neighbors(w, h, x, y)
        b == scan_best(sc, nb, 0, sc[y][x], 1)
    IN  IF b = 0 THEN <<x, y>> ELSE nb[b]

\* spatial.py 150-162: one iteration of the update loop; acc.grid is
\* self.grid, which the loop reads, acc.new_grid the grid it fills, acc.i
\* the position in the order of visit
SpatialGrid_update_cell(acc, sc, w, h, x, y) ==
    LET b == best_cell(sc, w, h, x, y)
        winner == at(acc.grid, w, h, b[1], b[2])
    IN  [acc EXCEPT !.new_grid[y][x] = new(winner.name), !.i = @ + 1]

\* an update that writes only the cells that keep their own strategy
Grid_update_cell_dropping(acc, sc, w, h, x, y) ==
    LET b == best_cell(sc, w, h, x, y)
        best_cls == acc.grid[b[2]][b[1]].name
    IN  IF b = <<x, y>>
        THEN [acc EXCEPT !.new_grid[y][x] = new(best_cls), !.i = @ + 1]
        ELSE [acc EXCEPT !.i = @ + 1]

\* grid.py 112-121
Grid_update_cell(acc, sc, w, h, x, y) ==
    LET b == best_cell(sc, w, h, x, y)
        best_cls == acc.grid[b[2]][b[1]].name
    IN  [acc EXCEPT !.new_grid[y][x] = new(best_cls), !.i = @ + 1]

\* an update in place: the grid the loop reads is overwritten as well
invade_evolve_cell_in_place(acc, sc, w, h, x, y) ==
    LET b == best_cell(sc, w, h, x, y)
        best_cls == acc.grid[b[2]][b[1]].name
    IN  [acc EXCEPT !.new_grid[y][x] = new(best_cls),
                    !.grid[y][x] = new(best_cls), !.i = @ + 1]

\* invade.py 130-142
invade_evolve_cell(acc, sc, w, h, x, y) ==
    LET b == best_cell(sc, w, h, x, y)
        best_cls == acc.grid[b[2]][b[1]].name
    IN  [acc EXCEPT !.new_grid[y][x] = new(best_cls), !.i = @ + 1]

\* an evolve_grid that looks the winner up with its coordinates swapped
explore_evolve_cell_transposed(acc, sc, w, h, x, y) ==
    LET b == best_cell(sc, w, h, x, y)
        best_cls == acc.grid[b[1] % h][b[2] % w].name
    IN  [acc EXCEPT !.new_grid[y][x] = new(best_cls), !.i = @ + 1]

\* explore.py 141-153
explore_evolve_cell(acc, sc, w, h, x, y) ==
    LET b == best_cell(sc, w, h, x, y)
        best_cls == acc.grid[b[2]][b[1]].name
    IN  [acc EXCEPT !.new_grid[y][x] = new(best_cls), !.i = @ + 1]

\* the cells in the order of the loops: y outer, x inner
RowMajor(w, h) ==
    [i \in 1..cell_count(w, h) |-> <<cell_x(w, i), cell_y(w, i)>>]

\* the update loop of each copy, visiting the cells in the given order
RECURSIVE SpatialGrid_update_loop(_, _, _, _, _)
SpatialGrid_update_loop(acc, sc, w, h, order) ==
    IF acc.i > Len(order) THEN acc
    ELSE SpatialGrid_update_loop(
             SpatialGrid_update_cell(acc, sc, w, h, order[acc.i][1], order[acc.i][2]),
             sc, w, h, order)

RECURSIVE Grid_update_loop(_, _, _, _, _)
Grid_update_loop(acc, sc, w, h, order) ==
    IF acc.i > Len(order) THEN acc
    ELSE Grid_update_loop(
             Grid_update_cell(acc, sc, w, h, order[acc.i][1], order[acc.i][2]),
             sc, w, h, order)

RECURSIVE invade_evolve_loop(_, _, _, _, _)
invade_evolve_loop(acc, sc, w, h, order) ==
    IF acc.i > Len(order) THEN acc
    ELSE invade_evolve_loop(
             invade_evolve_cell(acc, sc, w, h, order[acc.i][1], order[acc.i][2]),
             sc, w, h, order)

RECURSIVE explore_evolve_loop(_, _, _, _, _)
explore_evolve_loop(acc, sc, w, h, order) ==
    IF acc.i > Len(order) THEN acc
    ELSE explore_evolve_loop(
             explore_evolve_cell(acc, sc, w, h, order[acc.i][1], order[acc.i][2]),
             sc, w, h, order)

\* the whole update of the named copy with the cells visited in `order`:
\* a new grid of None cells is filled and returned
update_in_order(e, g, sc, w, h, order) ==
    LET acc == [grid |-> g, new_grid |-> filled(w, h, NoneCell), i |-> 1] IN
    CASE e = "SpatialGrid" -> SpatialGrid_update_loop(acc, sc, w, h, order).new_grid
      [] e = "Grid"        -> Grid_update_loop(acc, sc, w, h, order).new_grid
      [] e = "invade"      -> invade_evolve_loop(acc, sc, w, h, order).new_grid
      [] e = "explore"     -> explore_evolve_loop(acc, sc, w, h, order).new_grid

\* SpatialGrid.step 147-164, Grid.update, invade.evolve, explore.evolve_grid
update(e, g, sc, w, h) == update_in_order(e, g, sc, w, h, RowMajor(w, h))

\* the Score phase of the named copy
compute_scores(e, g, w, h, rounds, t, r) ==
    CASE e = "SpatialGrid" -> SpatialGrid_compute_scores(g, w, h, rounds, r)
      [] e = "Grid"        -> Grid_play_round(g, w, h, rounds, r)
      [] e = "invade"      -> invade_compute_scores(g, w, h, rounds, r)
      [] e = "explore"     -> explore_compute_scores(g, w, h, rounds, t, r)

----------------------------------------------------------------------------
(* Census *)

Cells(w, h) == (0..(w - 1)) \X (0..(h - 1))

\* SpatialGrid.census / Grid.census / explore.census: a dict from the names
\* present to their counts
census(g, w, h) ==
    LET names == {g[c[2]][c[1]].name : c \in Cells(w, h)} IN
    [n \in names |-> Cardinality({c \in Cells(w, h) : g[c[2]][c[1]].name = n})]

\* invade.count_cooperators
count_cooperators(g, w, h) ==
    Cardinality({c \in Cells(w, h) : g[c[2]][c[1]].name # "Always Defect"})

RECURSIVE SumOver(_, _)
SumOver(f, S) ==
    IF S = {} THEN 0
    ELSE LET e == CHOOSE e \in S : TRUE IN f[e] + SumOver(f, S \ {e})

\* sum(census.values())
census_total(c) == SumOver(c, DOMAIN c)

----------------------------------------------------------------------------
(* Initial states.  Each specification leaves the variables of the others  *)
(* at fixed values.                                                        *)

CallIdle == call = [op |-> "none"] /\ outcome = [kind |-> "none"]

MatchIdle ==
    /\ m_a = NoneCell /\ m_b = NoneCell
    /\ history_a = <<>> /\ history_b = <<>>
    /\ score_a = 0 /\ score_b = 0
    /\ m_rounds = 0 /\ m_pc = "off" /\ m_played = 0
    /\ m_calls = 0

RunIdle ==
    /\ loop = "none" /\ generations = 0 /\ gen = 0
    /\ prev_census = <<>> /\ stable = 0 /\ run_pc = "off"
    /\ snapshots = <<>>

GridIdle ==
    /\ engine = "none" /\ width = 0 /\ height = 0
    /\ rounds_per_match = 0 /\ temptation = 0
    /\ grid = <<>> /\ scores = <<>> /\ prev_grid = <<>>
    /\ generation = 0 /\ pc = "off"

Engines == {"SpatialGrid", "Grid", "invade", "explore"}

\* the grid sizes (width, height) the engine is run on
GridSizes == { <<1, 1>>, <<3, 1>>, <<1, 3>>, <<4, 1>>, <<3, 3>> }

\* the classes the initial grids are filled from
BackgroundClasses ==
    {"Always Cooperate", "Always Defect", "Suspicious TFT", "Grudger"}
CentreClasses == BackgroundClasses \cup {"Random"}

\* temptation payoffs explore.py is run with
Temptations == {5, 7}

\* a fill: class bg everywhere, c1 on the centre cell, c2 on the cell p
fill(w, h, bg, c1, p, c2) ==
    [y \in 0..(h - 1) |-> [x \in 0..(w - 1) |->
        new(IF <<x, y>> = p /\ c2 # bg THEN c2
            ELSE IF <<x, y>> = <<w \div 2, h \div 2>> THEN c1
            ELSE bg)]]

\* the fills the initial grids are drawn from (any of them is a possible
\* outcome of the random fill of the constructors)
Fills(w, h) ==
    { fill(w, h, bg, c1, p, c2) :
        bg \in BackgroundClasses, c1 \in CentreClasses,
        p \in Cells(w, h), c2 \in {"Suspicious TFT"} }
    \cup { fill(w, h, bg, c1, <<0, 0>>, bg) :
               bg \in BackgroundClasses, c1 \in CentreClasses }

HasClass(g, w, h, cls) == \E c \in Cells(w, h) : g[c[2]][c[1]].name = cls

\* the generator states the grid runs start from: two streams when a cell
\* draws from the generator, one otherwise
Alternating == {r \in RngStates : \A i \in 2..Len(r) : r[i] = ~r[i - 1]}

GridSeeds(g, w, h) ==
    IF HasClass(g, w, h, "Random") \/ HasClass(g, w, h, "Generous TFT")
    THEN Alternating
    ELSE {r \in Alternating : r[1]}

\* SpatialGrid.__init__, Grid.__init__, explore.make_grid: the state after
\* construction
InitGrid ==
    /\ MatchIdle /\ RunIdle /\ CallIdle
    /\ engine \in Engines
    /\ \E size \in GridSizes : width = size[1] /\ height = size[2]
    /\ rounds_per_match \in 1..MaxGridRounds
    /\ temptation \in (IF engine = "explore" THEN Temptations ELSE {5})
    /\ grid \in Fills(width, height)
    /\ prev_grid = grid
    /\ scores = filled(width, height, 0)
    /\ generation = 0
    /\ pc = "score"
    /\ rng \in GridSeeds(grid, width, height)

----------------------------------------------------------------------------
(* The Evolution Step of each copy, as its Score phase followed by its     *)
(* Update phase.                                                           *)

\* a Score phase that adds this generation's scores to the score grid of
\* the generation before
ScorePhase_accumulating(e) ==
    /\ engine = e /\ pc = "score"
    /\ generation < MaxGenerations
    /\ \E res \in {compute_scores(e, grid, width, height, rounds_per_match,
                                   temptation, rng)} :
           /\ grid' = res.grid
           /\ scores' = [y \in 0..(height - 1) |-> [x \in 0..(width - 1) |->
                            scores[y][x] + res.scores[y][x]]]
           /\ rng' = res.rng
    /\ pc' = "update"
    /\ UNCHANGED <<engine, width, height, rounds_per_match, temptation,
                   prev_grid, generation>>
    /\ UNCHANGED matchVars /\ UNCHANGED runVars /\ UNCHANGED callVars

ScorePhase(e) ==
    /\ engine = e /\ pc = "score"
    /\ generation < MaxGenerations
    /\ \E res \in {compute_scores(e, grid, width, height, rounds_per_match,
                                   temptation, rng)} :
           /\ grid' = res.grid
           /\ scores' = res.scores
           /\ rng' = res.rng
    /\ pc' = "update"
    /\ UNCHANGED <<engine, width, height, rounds_per_match, temptation,
                   prev_grid, generation>>
    /\ UNCHANGED matchVars /\ UNCHANGED runVars /\ UNCHANGED callVars

UpdatePhase(e) ==
    /\ engine = e /\ pc = "update"
    /\ prev_grid' = grid
    /\ grid' = update(e, grid, scores, width, height)
    /\ generation' = generation + 1
    /\ pc' = "score"
    /\ UNCHANGED <<engine, width, height, rounds_per_match, temptation,
                   scores, rng>>
    /\ UNCHANGED matchVars /\ UNCHANGED runVars /\ UNCHANGED callVars

\* SpatialGrid.step: line 145, then lines 147-165
SpatialGrid_step_scores == ScorePhase("SpatialGrid")
SpatialGrid_step_update == UpdatePhase("SpatialGrid")

\* Grid.step: play_round, then update
Grid_step_play_round == ScorePhase("Grid")
Grid_step_update == UpdatePhase("Grid")

\* invade.py: compute_scores, then evolve
invade_scores == ScorePhase("invade")
invade_evolve == UpdatePhase("invade")

\* explore.py: compute_scores, then evolve_grid
explore_scores == ScorePhase("explore")
explore_evolve_grid == UpdatePhase("explore")

NextGrid ==
    \/ SpatialGrid_step_scores \/ SpatialGrid_step_update
    \/ Grid_step_play_round \/ Grid_step_update
    \/ invade_scores \/ invade_evolve
    \/ explore_scores \/ explore_evolve_grid

SpecGrid == InitGrid /\ [][NextGrid]_vars

----------------------------------------------------------------------------
(* play_match, round by round.  The caller may hand the same two instances *)
(* to play_match again.                                                    *)

UsesRandom(cls) == cls \in {"Random", "Generous TFT"}

InitMatch ==
    /\ GridIdle /\ RunIdle /\ CallIdle
    /\ \E ca \in StrategyNames, cb \in StrategyNames :
         /\ m_a = new(ca)
         /\ m_b = new(cb)
         /\ rng \in (IF UsesRandom(ca) \/ UsesRandom(cb)
                     THEN RngStates ELSE {r \in Alternating : r[1]})
    /\ m_rounds \in 0..MaxRounds
    /\ history_a = <<>> /\ history_b = <<>>
    /\ score_a = 0 /\ score_b = 0
    /\ m_pc = "idle"
    /\ m_played = 0
    /\ m_calls = 0

\* game.py 42-48
play_match_enter ==
    /\ m_pc = "idle"
    /\ m_played < MaxMatches
    /\ LET st == match_begin(m_a, m_b, rng) IN
         /\ m_a' = st.a /\ m_b' = st.b
         /\ history_a' = st.history_a /\ history_b' = st.history_b
         /\ score_a' = st.score_a /\ score_b' = st.score_b
    /\ m_pc' = "rounds"
    /\ m_calls' = 0
    /\ call' = [op |-> "play_match", rounds |-> m_rounds]
    /\ outcome' = [kind |-> "none"]
    /\ UNCHANGED <<rng, m_rounds, m_played>>
    /\ UNCHANGED gridVars /\ UNCHANGED runVars

\* game.py 50-59: one iteration of the round loop
play_match_round ==
    /\ m_pc = "rounds"
    /\ Len(history_a) < m_rounds
    /\ LET st == match_round([a |-> m_a, b |-> m_b,
                              history_a |-> history_a, history_b |-> history_b,
                              score_a |-> score_a, score_b |-> score_b,
                              rng |-> rng])
       IN  /\ m_a' = st.a /\ m_b' = st.b
           /\ history_a' = st.history_a /\ history_b' = st.history_b
           /\ score_a' = st.score_a /\ score_b' = st.score_b
           /\ rng' = st.rng
    /\ m_calls' = m_calls + 2
    /\ UNCHANGED <<m_rounds, m_pc, m_played>>
    /\ UNCHANGED gridVars /\ UNCHANGED runVars /\ UNCHANGED callVars

\* a return that divides by rounds without the rounds > 0 test (not the
\* code's: the deviation the zero-round property is tested against)
play_match_return_unguarded ==
    /\ m_pc = "rounds"
    /\ Len(history_a) >= m_rounds
    /\ m_pc' = "idle"
    /\ m_played' = m_played + 1
    /\ outcome' = IF m_rounds = 0
                  THEN [kind |-> "raise", value |-> "ZeroDivisionError"]
                  ELSE MatchResult(score_a, score_b, m_rounds, history_a,
                                   history_b)
    /\ UNCHANGED <<rng, m_a, m_b, history_a, history_b, score_a, score_b,
                   m_rounds, m_calls, call>>
    /\ UNCHANGED gridVars /\ UNCHANGED runVars

\* game.py 61-69: the loop is over, the result is returned
play_match_return ==
    /\ m_pc = "rounds"
    /\ Len(history_a) >= m_rounds
    /\ m_pc' = "idle"
    /\ m_played' = m_played + 1
    /\ outcome' = MatchResult(score_a, score_b, m_rounds, history_a, history_b)
    /\ UNCHANGED <<rng, m_a, m_b, history_a, history_b, score_a, score_b,
                   m_rounds, m_calls, call>>
    /\ UNCHANGED gridVars /\ UNCHANGED runVars

NextMatch == play_match_enter \/ play_match_round \/ play_match_return

SpecMatch == InitMatch /\ [][NextMatch]_vars

----------------------------------------------------------------------------
(* The run-to-convergence loops: explore.run_simulation,                   *)
(* invade.run_invasion and main of spatial-dilemma/spatial.py.             *)

\* invade.py 59-66: the classes of INVADER_STRATEGIES
INVADER_STRATEGIES ==
    {"Tit for Tat", "Generous TFT", "Grudger", "Pavlov", "Always Cooperate",
     "Tit for Two Tats"}

abs(n) == IF n < 0 THEN -n ELSE n

\* a make_grid whose cluster is the square of the given radius (the larger
\* of the two coordinate distances) instead of the diamond
invade_make_grid_square(w, h, invader_cls, radius) ==
    LET cx == w \div 2
        cy == h \div 2
        inside(x, y) == abs(x - cx) <= radius /\ abs(y - cy) <= radius
    IN  [grid |-> [y \in 0..(h - 1) |-> [x \in 0..(w - 1) |->
                     IF inside(x, y) THEN new(invader_cls)
                     ELSE new("Always Defect")]],
         invader_count |->
             Cardinality({c \in Cells(w, h) : inside(c[1], c[2])})]

\* invade.make_grid: the grid and the invader count
invade_make_grid(w, h, invader_cls, radius) ==
    LET cx == w \div 2
        cy == h \div 2
        inside(x, y) == abs(x - cx) + abs(y - cy) <= radius
    IN  [grid |-> [y \in 0..(h - 1) |-> [x \in 0..(w - 1) |->
                     IF inside(x, y) THEN new(invader_cls)
                     ELSE new("Always Defect")]],
         invader_count |->
             Cardinality({c \in Cells(w, h) : inside(c[1], c[2])})]

RunSizes == { <<3, 1>>, <<4, 1>>, <<5, 1>>, <<3, 3>> }

\* the fills the loops over a randomly filled grid start from
RunFills(w, h) ==
    { fill(w, h, bg, c1, <<0, 0>>, bg) :
        bg \in BackgroundClasses, c1 \in BackgroundClasses }

InitRunCommon ==
    /\ MatchIdle /\ CallIdle
    /\ \E size \in RunSizes : width = size[1] /\ height = size[2]
    /\ rounds_per_match \in 1..MaxGridRounds
    /\ generations \in 0..MaxCeiling
    /\ gen = 0 /\ stable = 0 /\ run_pc = "loop"
    /\ generation = 0 /\ pc = "score"

\* explore.py 181-192
Init_run_simulation ==
    /\ InitRunCommon
    /\ loop = "run_simulation" /\ engine = "explore"
    /\ temptation = 5
    /\ grid \in RunFills(width, height)
    /\ prev_grid = grid /\ scores = filled(width, height, 0)
    /\ rng \in GridSeeds(grid, width, height)
    /\ prev_census = <<>>
    /\ snapshots = <<census(grid, width, height)>>

\* invade.py 159-164
Init_run_invasion ==
    /\ InitRunCommon
    /\ loop = "run_invasion" /\ engine = "invade"
    /\ temptation = 5
    /\ \E invader_cls \in INVADER_STRATEGIES, radius \in (-1)..MaxRadius :
         LET made == invade_make_grid(width, height, invader_cls, radius) IN
           /\ grid = made.grid
           /\ prev_census = made.invader_count
           /\ snapshots = <<census(made.grid, width, height)>>
    /\ prev_grid = grid /\ scores = filled(width, height, 0)
    /\ rng \in GridSeeds(grid, width, height)

\* spatial-dilemma/spatial.py 154-155
Init_main ==
    /\ InitRunCommon
    /\ loop = "main" /\ engine = "Grid"
    /\ temptation = 5
    /\ grid \in RunFills(width, height)
    /\ prev_grid = grid /\ scores = filled(width, height, 0)
    /\ rng \in GridSeeds(grid, width, height)
    /\ prev_census = <<>>
    /\ snapshots = <<census(grid, width, height)>>

\* prisoners-dilemma/spatial.py 378-380
Init_run_snapshot ==
    /\ InitRunCommon
    /\ loop = "run_snapshot" /\ engine = "SpatialGrid"
    /\ temptation = 5
    /\ grid \in RunFills(width, height)
    /\ prev_grid = grid /\ scores = filled(width, height, 0)
    /\ rng \in GridSeeds(grid, width, height)
    /\ prev_census = <<>>
    /\ snapshots = <<census(grid, width, height)>>

InitRun ==
    Init_run_simulation \/ Init_run_invasion \/ Init_main \/ Init_run_snapshot

\* one Evolution Step of the loop's engine: the grid, the scores and the
\* generator after it
evolution_step(e, g, w, h, rounds, t, r) ==
    CHOOSE st \in
        { [grid |-> update(e, sc.grid, sc.scores, w, h), scores |-> sc.scores,
           read |-> sc.grid, rng |-> sc.rng] :
          sc \in {compute_scores(e, g, w, h, rounds, t, r)} } : TRUE

\* the part of an iteration every loop shares: the step is taken
RunStep(st) ==
    /\ grid' = st.grid
    /\ prev_grid' = st.read
    /\ scores' = st.scores
    /\ rng' = st.rng
    /\ generation' = generation + 1
    /\ gen' = gen + 1
    /\ snapshots' = Append(snapshots, census(st.grid, width, height))
    /\ UNCHANGED <<engine, width, height, rounds_per_match, temptation, pc,
                   loop, generations>>
    /\ UNCHANGED matchVars /\ UNCHANGED callVars

\* a run_simulation that loops until the census is stable, without a ceiling
run_simulation_iteration_unbounded ==
    /\ loop = "run_simulation" /\ run_pc = "loop"
    /\ \E st \in {evolution_step("explore", grid, width, height,
                                 rounds_per_match, temptation, rng)} :
       LET
           current == census(st.grid, width, height)
       IN  /\ RunStep(st)
           /\ IF current = prev_census
              THEN /\ stable' = stable + 1
                   /\ IF stable + 1 >= 3
                      THEN run_pc' = "break" /\ UNCHANGED prev_census
                      ELSE run_pc' = "loop" /\ prev_census' = current
              ELSE /\ stable' = 0
                   /\ run_pc' = "loop"
                   /\ prev_census' = current

\* an iteration of run_simulation that also stops on a single strategy
run_simulation_iteration_single ==
    /\ loop = "run_simulation" /\ run_pc = "loop"
    /\ gen < generations
    /\ \E st \in {evolution_step("explore", grid, width, height,
                                 rounds_per_match, temptation, rng)} :
       LET
           current == census(st.grid, width, height)
       IN  /\ RunStep(st)
           /\ IF Cardinality(DOMAIN current) = 1
              THEN run_pc' = "break" /\ UNCHANGED <<prev_census, stable>>
              ELSE IF current = prev_census
              THEN /\ stable' = stable + 1
                   /\ IF stable + 1 >= 3
                      THEN run_pc' = "break" /\ UNCHANGED prev_census
                      ELSE run_pc' = "loop" /\ prev_census' = current
              ELSE /\ stable' = 0
                   /\ run_pc' = "loop"
                   /\ prev_census' = current

\* explore.py 194-206: one iteration of run_simulation's loop
run_simulation_iteration ==
    /\ loop = "run_simulation" /\ run_pc = "loop"
    /\ gen < generations
    /\ \E st \in {evolution_step("explore", grid, width, height,
                                 rounds_per_match, temptation, rng)} :
       LET
           current == census(st.grid, width, height)
       IN  /\ RunStep(st)
           /\ IF current = prev_census
              THEN /\ stable' = stable + 1
                   /\ IF stable + 1 >= 3
                      THEN run_pc' = "break" /\ UNCHANGED prev_census
                      ELSE run_pc' = "loop" /\ prev_census' = current
              ELSE /\ stable' = 0
                   /\ run_pc' = "loop"
                   /\ prev_census' = current

\* an iteration of run_invasion that stops on the second unchanged count
run_invasion_iteration_twice ==
    /\ loop = "run_invasion" /\ run_pc = "loop"
    /\ gen < generations
    /\ \E st \in {evolution_step("invade", grid, width, height,
                                 rounds_per_match, temptation, rng)} :
       LET
           count == count_cooperators(st.grid, width, height)
       IN  /\ RunStep(st)
           /\ IF count = prev_census
              THEN /\ stable' = stable + 1
                   /\ IF stable + 1 >= 2
                      THEN run_pc' = "break" /\ UNCHANGED prev_census
                      ELSE run_pc' = "loop" /\ prev_census' = count
              ELSE /\ stable' = 0
                   /\ run_pc' = "loop"
                   /\ prev_census' = count

\* invade.py 166-182: one iteration of run_invasion's loop
run_invasion_iteration ==
    /\ loop = "run_invasion" /\ run_pc = "loop"
    /\ gen < generations
    /\ \E st \in {evolution_step("invade", grid, width, height,
                                 rounds_per_match, temptation, rng)} :
       LET
           count == count_cooperators(st.grid, width, height)
       IN  /\ RunStep(st)
           /\ IF count = prev_census
              THEN /\ stable' = stable + 1
                   /\ IF stable + 1 >= 3
                      THEN run_pc' = "break" /\ UNCHANGED prev_census
                      ELSE run_pc' = "loop" /\ prev_census' = count
              ELSE /\ stable' = 0
                   /\ run_pc' = "loop"
                   /\ prev_census' = count

\* spatial-dilemma/spatial.py 165-184: one iteration of main's loop
main_iteration ==
    /\ loop = "main" /\ run_pc = "loop"
    /\ gen < generations
    /\ \E st \in {evolution_step("Grid", grid, width, height,
                                 rounds_per_match, temptation, rng)} :
       LET
           current == census(st.grid, width, height)
       IN  /\ RunStep(st)
           /\ run_pc' = IF Cardinality(DOMAIN current) = 1
                        THEN "break" ELSE "loop"
           /\ UNCHANGED <<prev_census, stable>>

\* prisoners-dilemma/spatial.py 382-386: one iteration of run_snapshot's
\* loop, which has no early stop
run_snapshot_iteration ==
    /\ loop = "run_snapshot" /\ run_pc = "loop"
    /\ gen < generations
    /\ \E st \in {evolution_step("SpatialGrid", grid, width, height,
                                 rounds_per_match, temptation, rng)} :
           RunStep(st)
    /\ UNCHANGED <<prev_census, stable, run_pc>>

\* range(generations) is used up: the loop ends without a break
loop_exhausted ==
    /\ run_pc = "loop"
    /\ gen >= generations
    /\ run_pc' = "exhausted"
    /\ UNCHANGED <<rng, loop, generations, gen, prev_census, stable,
                   snapshots>>
    /\ UNCHANGED gridVars /\ UNCHANGED matchVars /\ UNCHANGED callVars

NextRun ==
    \/ run_simulation_iteration
    \/ run_invasion_iteration
    \/ main_iteration
    \/ run_snapshot_iteration
    \/ loop_exhausted

SpecRun == InitRun /\ [][NextRun]_vars

\* what every step of a running loop does to its control state: an
\* iteration counts one more generation, the end of the range leaves the
\* loop
loop_advances ==
    /\ run_pc = "loop"
    /\ \/ gen' = gen + 1 /\ run_pc' \in {"loop", "break"}
       \/ gen' = gen /\ run_pc' = "exhausted"

\* the loops are sequential code that keeps running until it returns: a
\* loop that can take a step takes one
SpecRunFair == SpecRun /\ WF_<<gen, run_pc>>(loop_advances)

----------------------------------------------------------------------------
(* Properties of play_match (SpecMatch) *)

\* the moves of a Grudger with history mine against an opponent with
\* history theirs: no cooperation after the opponent's first defection
GrudgerHolds(s, mine, theirs) ==
    s.name = "Grudger" =>
        /\ \A k \in 1..Len(theirs) : \A j \in (k + 1)..Len(mine) :
               theirs[k] = DEFECT => mine[j] = DEFECT
        /\ Len(mine) >= 1 => mine[1] = COOPERATE

\* C8: within one match, once the opponent has defected in round k, Grudger
\* defects in every later round whatever the opponent does afterwards; and
\* in round 1 of every match, also of a match played after one in which it
\* was betrayed, Grudger cooperates.
C8_GrudgerIrreversible ==
    /\ GrudgerHolds(m_a, history_a, history_b)
    /\ GrudgerHolds(m_b, history_b, history_a)

\* a second match of the same Grudger, in which the opponent defected, then
\* cooperated again, and Grudger has answered the cooperation
C8_Witness ==
    /\ m_played >= 1
    /\ m_a.name = "Grudger"
    /\ \E k \in 1..Len(history_b) : \E j \in (k + 1)..Len(history_b) :
         /\ history_b[k] = DEFECT
         /\ history_b[j] = COOPERATE
         /\ Len(history_a) > j

----------------------------------------------------------------------------
(* Properties of the Evolution Step (SpecGrid) *)

\* an Evolution Step has just ended: grid is its result, prev_grid the grid
\* its Update phase read, scores the score grid of its Score phase
Stepped == pc = "score" /\ generation >= 1

\* the k-th place (0..8, 4 is the cell itself) of the loops dy over
\* (-1, 0, 1) outer, dx over (-1, 0, 1) inner, around cell (x, y)
Place(x, y, k) ==
    << (x + (k % 3) - 1) % width, (y + (k \div 3) - 1) % height >>

NeighbourPlaces == (0..8) \ {4}

ScoreAt(c) == scores[c[2]][c[1]]

\* C1: after any number of Evolution Steps every cell holds exactly one
\* strategy of the catalog (no cell is None) and the census counts sum to
\* width * height.
C1_PopulationConserved ==
    /\ \A c \in Cells(width, height) : grid[c[2]][c[1]].name \in StrategyNames
    /\ census_total(census(grid, width, height)) = width * height

\* two steps were taken and the last one changed the census
C1_Witness ==
    /\ Stepped /\ generation >= 2
    /\ census(grid, width, height) # census(prev_grid, width, height)

Reversed(order) == [i \in 1..Len(order) |-> order[Len(order) + 1 - i]]

\* x outer, y inner
ColumnMajor(w, h) ==
    [i \in 1..(w * h) |-> << (i - 1) \div h, (i - 1) % h >>]

CellOrders(w, h) ==
    {Reversed(RowMajor(w, h)), ColumnMajor(w, h), Reversed(ColumnMajor(w, h))}

\* C2: the grid an Evolution Step produces is a function of the grid before
\* the Update phase and the fully computed score grid only: updating the
\* cells in any other order gives the same grid.
C2_TwoPhaseUpdate ==
    Stepped =>
        \A order \in CellOrders(width, height) :
            update_in_order(engine, prev_grid, scores, width, height, order)
              = grid

\* a cell adopted the old strategy of a neighbour that itself changed
\* strategy in the same step
C2_Witness ==
    /\ Stepped
    /\ \E c \in Cells(width, height) :
         LET b == best_cell(scores, width, height, c[1], c[2]) IN
           /\ b # c
           /\ grid[c[2]][c[1]].name = prev_grid[b[2]][b[1]].name
           /\ grid[b[2]][b[1]].name # prev_grid[b[2]][b[1]].name

\* C3: after an Evolution Step each cell holds the strategy that a cell of
\* its neighbourhood-plus-self held before the step, and that cell's score
\* is the maximum over the neighbourhood-plus-self.
C3_ImitateTheBest ==
    Stepped =>
        \A c \in Cells(width, height) :
            \E k \in 0..8 :
                LET b == Place(c[1], c[2], k) IN
                  /\ grid[c[2]][c[1]].name = prev_grid[b[2]][b[1]].name
                  /\ \A j \in 0..8 :
                         ScoreAt(Place(c[1], c[2], j)) <= ScoreAt(b)

\* a cell changed strategy although two of its neighbours with different
\* scores both beat it
C3_Witness ==
    /\ Stepped
    /\ \E c \in Cells(width, height) :
         /\ grid[c[2]][c[1]].name # prev_grid[c[2]][c[1]].name
         /\ \E j, k \in NeighbourPlaces :
              /\ ScoreAt(Place(c[1], c[2], j)) > ScoreAt(c)
              /\ ScoreAt(Place(c[1], c[2], k)) > ScoreAt(Place(c[1], c[2], j))

\* the neighbour places of cell c whose score is strictly above the cell's
\* own and not below any neighbour's
TopPlaces(c) ==
    {k \in NeighbourPlaces :
        /\ ScoreAt(Place(c[1], c[2], k)) > ScoreAt(c)
        /\ \A j \in NeighbourPlaces :
               ScoreAt(Place(c[1], c[2], j)) <= ScoreAt(Place(c[1], c[2], k))}

\* C4: a cell keeps its own strategy unless some neighbour scores strictly
\* higher than the cell itself; otherwise it takes the strategy of the
\* best-scoring neighbour, and among neighbours with equal best score the
\* first in the enumeration order (dy outer, dx inner, each over -1, 0, 1).
C4_StrictTieBreak ==
    Stepped =>
        \A c \in Cells(width, height) :
            IF TopPlaces(c) = {}
            THEN grid[c[2]][c[1]].name = prev_grid[c[2]][c[1]].name
            ELSE LET first == CHOOSE k \in TopPlaces(c) :
                                  \A j \in TopPlaces(c) : k <= j
                     b == Place(c[1], c[2], first)
                 IN  grid[c[2]][c[1]].name = prev_grid[b[2]][b[1]].name

\* both halves of the rule decide something: one cell ties with a neighbour
\* of another strategy, and one cell has two best neighbours of different
\* strategies and took the first one's
C4_Witness ==
    /\ Stepped
    /\ \E c \in Cells(width, height) :
         /\ TopPlaces(c) = {}
         /\ \E k \in NeighbourPlaces :
              LET b == Place(c[1], c[2], k) IN
                /\ ScoreAt(b) = ScoreAt(c)
                /\ prev_grid[b[2]][b[1]].name # prev_grid[c[2]][c[1]].name
    /\ \E c \in Cells(width, height) :
         \E j, k \in TopPlaces(c) :
             LET bj == Place(c[1], c[2], j)
                 bk == Place(c[1], c[2], k)
             IN  /\ j < k
                 /\ prev_grid[bj[2]][bj[1]].name # prev_grid[bk[2]][bk[1]].name
                 /\ grid[c[2]][c[1]].name = prev_grid[bj[2]][bj[1]].name

\* the 3x3 grid of Always Defect with an Always Cooperate centre
C5_Grid ==
    [y \in 0..2 |-> [x \in 0..2 |->
        new(IF x = 1 /\ y = 1 THEN "Always Cooperate" ELSE "Always Defect")]]

C5_Scores ==
    /\ scores[1][1] = 0
    /\ \A c \in Cells(3, 3) : c # <<1, 1>> => ScoreAt(c) > 0

\* C5: on the 3x3 grid of Always Defect with an Always Cooperate centre and
\* 1 round per match the Score phase gives the centre 0 and every defector
\* more than 0, and the Evolution Step ends in the uniformly Always Defect
\* grid.
C5_TieBreakExample ==
    (width = 3 /\ height = 3 /\ rounds_per_match = 1 /\ temptation = 5) =>
        /\ (pc = "update" /\ grid = C5_Grid) => C5_Scores
        /\ (Stepped /\ prev_grid = C5_Grid) =>
              /\ C5_Scores
              /\ grid = filled(3, 3, new("Always Defect"))

C5_Witness ==
    /\ engine = "SpatialGrid"
    /\ width = 3 /\ height = 3 /\ rounds_per_match = 1
    /\ Stepped /\ prev_grid = C5_Grid
    /\ grid = filled(3, 3, new("Always Defect"))

\* no cell draws from the random generator
Deterministic(g, w, h) ==
    ~HasClass(g, w, h, "Random") /\ ~HasClass(g, w, h, "Generous TFT")

\* the generator state every draw of which is the opposite of r's
Opposite(r) == [i \in 1..Len(r) |-> ~r[i]]

\* C6: for a grid without Random and Generous TFT cells the Evolution Step
\* run again from the same grid, with the same payoff matrix and rounds per
\* match but another state of the random generator, produces the same grid.
C6_Determinism ==
    (Stepped /\ Deterministic(prev_grid, width, height)) =>
        evolution_step(engine, prev_grid, width, height, rounds_per_match,
                       temptation, Opposite(rng)).grid = grid

\* a step on such a grid that changed the grid
C6_Witness ==
    /\ Stepped /\ Deterministic(prev_grid, width, height)
    /\ grid # prev_grid
    /\ engine = "explore"

\* the score of cell c from 8 matches played by freshly constructed
\* instances of the two strategies
FreshScore(c) ==
    SumOver([k \in NeighbourPlaces |->
                LET n == Place(c[1], c[2], k) IN
                inline_match(new(grid[c[2]][c[1]].name),
                             new(grid[n[2]][n[1]].name),
                             rounds_per_match, temptation, rng).score],
            NeighbourPlaces)

\* C7: the instances stored in the grid are in their initial memory state
\* at every moment, in particular when the Score phase has ended, and the
\* scores of the Score phase are those of matches between instances with
\* cleared memory: nothing is carried from one of a cell's 8 matches to the
\* next.
C7_MatchScopedMemory ==
    /\ \A c \in Cells(width, height) :
           grid[c[2]][c[1]] = new(grid[c[2]][c[1]].name)
    /\ (pc = "update" /\ Deterministic(grid, width, height)) =>
           \A c \in Cells(width, height) : ScoreAt(c) = FreshScore(c)

\* the Score phase has ended and a Grudger cell has played, over at least 2
\* rounds, a neighbour that defected against it
C7_Witness ==
    /\ pc = "update" /\ rounds_per_match >= 2
    /\ engine = "Grid"
    /\ \E c \in Cells(width, height) :
         /\ grid[c[2]][c[1]].name = "Grudger"
         /\ \E k \in NeighbourPlaces :
              LET n == Place(c[1], c[2], k) IN
              grid[n[2]][n[1]].name \in {"Always Defect", "Suspicious TFT"}

----------------------------------------------------------------------------
(* Properties of the run-to-convergence loops (SpecRun) *)

\* the census holds a single strategy
Single(c) == Cardinality(DOMAIN c) = 1

\* the grid was seeded with one strategy in every cell
HomogeneousSeed == Single(snapshots[1])

\* what a loop compares from one generation to the next: the census by
\* value, in run_invasion the number of cells that are not Always Defect
Compared(c) ==
    IF loop = "run_invasion"
    THEN SumOver(c, DOMAIN c \ {"Always Defect"})
    ELSE c

\* each of the last n generations left what is compared unchanged
Unchanged(n) ==
    /\ Len(snapshots) > n
    /\ \A i \in 0..(n - 1) :
           Compared(snapshots[Len(snapshots) - i])
             = Compared(snapshots[Len(snapshots) - i - 1])

StopCondition ==
    CASE loop = "main" -> Single(snapshots[Len(snapshots)])
      [] loop = "run_invasion" -> Unchanged(3)
      [] loop = "run_simulation" -> Len(snapshots) > 4 /\ Unchanged(3)
      [] loop = "run_snapshot" -> FALSE

C11_HardCeiling ==
    /\ [](gen <= generations /\ generation = gen)
    /\ <>(run_pc \in {"break", "exhausted"})

\* run_simulation ran to a ceiling of 4 or more on a census that was still
\* alternating between two values
C11_Witness ==
    /\ loop = "run_simulation" /\ run_pc = "exhausted"
    /\ gen = generations /\ generations >= 4
    /\ snapshots[Len(snapshots)] # snapshots[Len(snapshots) - 1]
    /\ snapshots[Len(snapshots)] = snapshots[Len(snapshots) - 2]
    /\ snapshots[Len(snapshots) - 1] = snapshots[Len(snapshots) - 3]

----------------------------------------------------------------------------
(* C12: the one-move-per-cell fast path against separate one-round        *)
(* matches.                                                                *)

\* the score grid of one-round matches played separately against each
\* neighbour (lines 131-139 taken with rounds_per_match = 1)
separate_matches(g, w, h, r) ==
    SpatialGrid_slow([grid |-> g, scores |-> filled(w, h, 0), rng |-> r,
                      i |-> 0], w, h, 1)

FastPathStep == SpatialGrid_step_scores /\ rounds_per_match = 1

\* C12: for every grid, the scores the fast path computes at
\* rounds_per_match = 1 are the scores of separate one-round matches against
\* each neighbour, and so is the next generation.
C12_FastPathEquivalence ==
    [][FastPathStep =>
        LET sep == separate_matches(grid, width, height, rng) IN
        /\ scores' = sep.scores
        /\ update("SpatialGrid", grid', scores', width, height)
             = update("SpatialGrid", sep.grid, sep.scores, width, height)]_vars

----------------------------------------------------------------------------
(* C13: the shape of the neighbourhood.                                    *)

\* neighbors(x, y) is 8 pairs, pairwise distinct, inside the grid, none of
\* them the cell itself
NeighbourhoodShape(w, h, x, y) ==
    LET ns == neighbors(w, h, x, y) IN
    /\ Len(ns) = 8
    /\ \A i, j \in 1..8 : i # j => ns[i] # ns[j]
    /\ \A i \in 1..8 : ns[i] \in Cells(w, h) /\ ns[i] # <<x, y>>

\* C13 as stated: for every cell of every grid, neighbors(x, y) returns 8
\* pairwise distinct in-range pairs, none equal to (x, y).
C13_NeighbourhoodShape ==
    engine # "none" =>
        \A c \in Cells(width, height) :
            NeighbourhoodShape(width, height, c[1], c[2])

\* C13 amended: on every grid at least 3 wide and 3 high, neighbors(x, y)
\* returns 8 pairwise distinct in-range pairs, none equal to (x, y); on
\* every grid the 8 pairs are in range.
C13_NeighbourhoodShapeFrom3 ==
    engine # "none" =>
        \A c \in Cells(width, height) :
            /\ Len(neighbors(width, height, c[1], c[2])) = 8
            /\ \A i \in 1..8 :
                   neighbors(width, height, c[1], c[2])[i]
                       \in Cells(width, height)
            /\ (width >= 3 /\ height >= 3)
                   => NeighbourhoodShape(width, height, c[1], c[2])

\* a 3x3 grid whose scores have been summed over the neighbourhoods, one
\* of them wrapping around both edges
C13_Witness ==
    /\ engine = "SpatialGrid" /\ width = 3 /\ height = 3 /\ pc = "update"
    /\ neighbors(width, height, 0, 0)[1] = <<2, 2>>
    /\ \E c \in Cells(width, height) : scores[c[2]][c[1]] > 0

----------------------------------------------------------------------------
(* The grid's cell accessors, called with arbitrary integer coordinates:   *)
(* SpatialGrid.at / SpatialGrid.set (prisoners-dilemma/spatial.py) and     *)
(* Grid.get / Grid.strategy_at (spatial-dilemma/grid.py).                  *)

\* the coordinates the accessors are called with: below -width, negative,
\* in range, and at or beyond width / height
Coords == (0 - MaxCoord)..MaxCoord

AccessSizes == { <<3, 1>>, <<2, 2>> }

\* Python's list indexing seq[i] on a list of length n: an index in
\* -n..n-1 reads element i (counted from the end when negative), any
\* other raises IndexError
list_index_ok(n, i) == (0 - n) <= i /\ i <= n - 1
list_index(n, i) == IF i < 0 THEN n + i ELSE i

InitAccess ==
    /\ MatchIdle /\ RunIdle /\ CallIdle
    /\ engine \in {"SpatialGrid", "Grid"}
    /\ \E size \in AccessSizes : width = size[1] /\ height = size[2]
    /\ rounds_per_match = 1 /\ temptation = 5
    /\ grid \in { fill(width, height, bg, "Tit for Tat", <<0, 0>>, bg) :
                      bg \in {"Always Cooperate", "Grudger"} }
    /\ prev_grid = grid
    /\ scores = filled(width, height, 0)
    /\ generation = 0 /\ pc = "score"
    /\ rng \in {r \in Alternating : r[1]}

AccessFrame ==
    /\ UNCHANGED <<rng, engine, width, height, rounds_per_match, temptation,
                   scores, prev_grid, generation, pc>>
    /\ UNCHANGED matchVars /\ UNCHANGED runVars

\* SpatialGrid.at(x, y)
SpatialGrid_at ==
    \E x \in Coords, y \in Coords :
        /\ engine = "SpatialGrid"
        /\ call' = [op |-> "SpatialGrid.at", x |-> x, y |-> y]
        /\ outcome' = [kind |-> "return",
                       value |-> grid[y % height][x % width]]
        /\ UNCHANGED grid /\ AccessFrame

\* SpatialGrid.set(x, y, strategy)
SpatialGrid_set ==
    \E x \in Coords, y \in Coords, strategy \in {new("Always Defect")} :
        /\ engine = "SpatialGrid"
        /\ call' = [op |-> "SpatialGrid.set", x |-> x, y |-> y,
                    strategy |-> strategy]
        /\ grid' = [grid EXCEPT ![y % height][x % width] = strategy]
        /\ outcome' = [kind |-> "return", value |-> "None"]
        /\ AccessFrame

\* Grid.get(x, y)
Grid_get ==
    \E x \in Coords, y \in Coords :
        /\ engine = "Grid"
        /\ call' = [op |-> "Grid.get", x |-> x, y |-> y]
        /\ outcome' = [kind |-> "return",
                       value |-> grid[y % height][x % width]]
        /\ UNCHANGED grid /\ AccessFrame

\* Grid.strategy_at(x, y): self.cells[y][x].name, two plain list indexings
Grid_strategy_at ==
    \E x \in Coords, y \in Coords :
        /\ engine = "Grid"
        /\ call' = [op |-> "Grid.strategy_at", x |-> x, y |-> y]
        /\ outcome' =
               IF list_index_ok(height, y) /\ list_index_ok(width, x)
               THEN [kind |-> "return",
                     value |-> grid[list_index(height, y)]
                                   [list_index(width, x)].name]
               ELSE [kind |-> "raise", value |-> "IndexError"]
        /\ UNCHANGED grid /\ AccessFrame

NextAccess ==
    \/ SpatialGrid_at \/ SpatialGrid_set \/ Grid_get \/ Grid_strategy_at

SpecAccess == InitAccess /\ [][NextAccess]_vars

----------------------------------------------------------------------------
(* C14: coordinate wrapping of the cell accessors.                         *)

CellReads == {"SpatialGrid.at", "Grid.get", "Grid.strategy_at"}

\* C14: for every integer pair (x, y), negative or at or beyond the size
\* included, the cell read and the cell write access the cell
\* (x mod width, y mod height) and never raise an out-of-range error.
C14_CoordinateWrapping ==
    /\ call.op \in CellReads \cup {"SpatialGrid.set"}
           => outcome.kind = "return"
    /\ call.op \in {"SpatialGrid.at", "Grid.get"}
           => outcome.value = grid[call.y % height][call.x % width]
    /\ (call.op = "Grid.strategy_at" /\ outcome.kind = "return")
           => outcome.value = grid[call.y % height][call.x % width].name
    /\ call.op = "SpatialGrid.set"
           => grid[call.y % height][call.x % width] = call.strategy

----------------------------------------------------------------------------
(* Scores of particular matches (SpecMatch) *)

\* play_match has returned the result of a match of m_rounds rounds
Returned == m_pc = "idle" /\ m_played >= 1 /\ outcome.kind = "return"

\* the match under way, or just returned, is cls_a against cls_b
Playing(cls_a, cls_b) ==
    m_pc \in {"rounds", "idle"} /\ m_a.name = cls_a /\ m_b.name = cls_b

\* C15: Tit for Tat against Always Defect over N >= 1 rounds, with R=3,
\* S=0, T=5, P=1: Tit for Tat scores N-1 and Always Defect 5 + (N-1); on
\* either side of the match, after every round N of it and in the result
\* returned.
C15_TitForTatVsAlwaysDefect ==
    /\ (Playing("Tit for Tat", "Always Defect") /\ Len(history_a) >= 1) =>
           /\ score_a = Len(history_a) - 1
           /\ score_b = 5 + (Len(history_a) - 1)
    /\ (Playing("Always Defect", "Tit for Tat") /\ Len(history_a) >= 1) =>
           /\ score_b = Len(history_a) - 1
           /\ score_a = 5 + (Len(history_a) - 1)
    /\ (Returned /\ m_rounds >= 1
          /\ m_a.name = "Tit for Tat" /\ m_b.name = "Always Defect") =>
           /\ outcome.value.score_a = m_rounds - 1
           /\ outcome.value.score_b = 5 + (m_rounds - 1)

\* a returned match of at least 3 rounds between the two
C15_Witness ==
    /\ Returned /\ m_rounds >= 3
    /\ m_a.name = "Tit for Tat" /\ m_b.name = "Always Defect"
    /\ history_a = [i \in 1..m_rounds |-> i = 1]
    /\ outcome.value.score_b = m_rounds + 4

\* C16: Always Cooperate against Always Cooperate over N rounds yields
\* (3N, 3N), for every N >= 0.
C16_MutualCooperation ==
    /\ Playing("Always Cooperate", "Always Cooperate") =>
           /\ score_a = 3 * Len(history_a)
           /\ score_b = 3 * Len(history_a)
    /\ (Returned /\ m_a.name = "Always Cooperate"
          /\ m_b.name = "Always Cooperate") =>
           /\ outcome.value.score_a = 3 * m_rounds
           /\ outcome.value.score_b = 3 * m_rounds

\* a returned match of at least 3 rounds between two Always Cooperate
C16_Witness ==
    /\ Returned /\ m_rounds >= 3
    /\ m_a.name = "Always Cooperate" /\ m_b.name = "Always Cooperate"
    /\ outcome.value.score_a = 3 * m_rounds
    /\ outcome.value.cooperation_a = <<m_rounds, m_rounds>>

\* C17: a match of 0 rounds yields (0, 0) for every pair of strategies,
\* makes no call of choose (no move is recorded, no draw is taken from the
\* generator, no instance changes) and returns without an error.
C17_ZeroRounds ==
    (m_pc = "idle" /\ m_played >= 1 /\ m_rounds = 0) =>
        /\ outcome.kind = "return"
        /\ outcome.value.score_a = 0 /\ outcome.value.score_b = 0
        /\ outcome.value.cooperation_a = <<0, 1>>
        /\ outcome.value.cooperation_b = <<0, 1>>
        /\ m_calls = 0
        /\ history_a = <<>> /\ history_b = <<>>
        /\ m_a = new(m_a.name) /\ m_b = new(m_b.name)

\* a returned match of 0 rounds between a Random and a Detective
C17_Witness ==
    /\ Returned /\ m_rounds = 0
    /\ m_a.name = "Random" /\ m_b.name = "Detective"
    /\ outcome.value.rounds = 0

----------------------------------------------------------------------------
(* The critical-point finders: explore.find_critical_point over the        *)
(* (temptation, cooperation) samples of a sweep, and the critical radius   *)
(* of invade.run_sweep.  A metric (a fraction in 0..1) is kept in tenths,  *)
(* a computed parameter as the pair (numerator, denominator) with a        *)
(* positive denominator.                                                   *)

\* the metric values of the samples, in tenths
Metrics == {0, 3, 5, 6, 8, 10}

\* the threshold 0.5, in tenths
Half == 5

\* n / d with the sign carried by the numerator
Ratio(n, d) == IF d < 0 THEN <<0 - n, 0 - d>> ELSE <<n, d>>

None == [kind |-> "return", found |-> FALSE]
Found(v) == [kind |-> "return", found |-> TRUE, value |-> v]

\* a finder that reports the left end of the bracketing pair, without
\* interpolating (not the code's: the deviation the interpolation property
\* is tested against)
RECURSIVE find_critical_point_left_from(_, _)
find_critical_point_left_from(data, i) ==
    IF i > Len(data) - 1 THEN None
    ELSE IF data[i][2] >= Half /\ data[i + 1][2] < Half
         THEN Found(Ratio(data[i][1], 1))
         ELSE find_critical_point_left_from(data, i + 1)

find_critical_point_left(data) == find_critical_point_left_from(data, 1)

\* explore.py 310-318: the loop from the pair (data[i], data[i + 1]) on
RECURSIVE find_critical_point_from(_, _)
find_critical_point_from(data, i) ==
    IF i > Len(data) - 1 THEN None
    ELSE LET t1 == data[i][1]
             c1 == data[i][2]
             t2 == data[i + 1][1]
             c2 == data[i + 1][2]
         IN  IF c1 >= Half /\ c2 < Half
             THEN IF c1 = c2 THEN Found(Ratio(t1, 1))
                  ELSE \* t1 + (0.5 - c1) * (t2 - t1) / (c2 - c1)
                       Found(Ratio(t1 * (c2 - c1) + (Half - c1) * (t2 - t1),
                                   c2 - c1))
             ELSE find_critical_point_from(data, i + 1)

\* explore.find_critical_point
find_critical_point(data) == find_critical_point_from(data, 1)

\* invade.run_invasion, run to its end: the initial and the final count
RECURSIVE run_invasion_loop(_, _, _, _, _)
run_invasion_loop(acc, w, h, rounds, gens) ==
    IF acc.gen >= gens \/ acc.broke THEN acc
    ELSE LET after(st, count) ==
                 LET same == count = acc.prev_count
                     stable_now == IF same THEN acc.stable + 1 ELSE 0
                     broke == same /\ stable_now >= 3
                 IN  [grid |-> st.grid, rng |-> st.rng, gen |-> acc.gen + 1,
                      prev_count |-> IF broke THEN acc.prev_count ELSE count,
                      stable |-> stable_now, broke |-> broke, last |-> count]
         IN  run_invasion_loop(
                 CHOOSE a \in
                     { after(st, count_cooperators(st.grid, w, h)) :
                         st \in {evolution_step("invade", acc.grid, w, h,
                                                rounds, 5, acc.rng)} } : TRUE,
                 w, h, rounds, gens)

run_invasion(w, h, invader_cls, radius, rounds, gens, r) ==
    LET made == invade_make_grid(w, h, invader_cls, radius)
        fin == run_invasion_loop(
                   [grid |-> made.grid, rng |-> r, gen |-> 0,
                    prev_count |-> made.invader_count, stable |-> 0,
                    broke |-> FALSE, last |-> made.invader_count],
                   w, h, rounds, gens)
    IN  [initial |-> made.invader_count, final |-> fin.last]

\* random.seed(42 + s * 13): the generator state of seed number s
Seed(s) == [i \in 1..RngLen |-> (i + s) % 2 = 1]

\* invade.py 371-391: the row of results for radius r: the radius, the
\* initial size, and the success rate as (successes, n_seeds)
sweep_row(c, r) ==
    LET run(s) == run_invasion(c.width, c.height, c.invader_cls, r,
                               c.rounds_per_match, c.generations, Seed(s))
        \* history[0] of the run with s == 0
        initial_size ==
            invade_make_grid(c.width, c.height, c.invader_cls, r).invader_count
        successes ==
            Cardinality({s \in 0..(c.n_seeds - 1) :
                            run(s).final > initial_size})
    IN  <<r, initial_size, <<successes, c.n_seeds>>>>

\* rate >= 0.5
AtLeastHalf(rate) == 2 * rate[1] >= rate[2]

\* a search that reports the radius reached when the rows run out (not the
\* code's: the deviation the not-found property is tested against)
RECURSIVE run_sweep_critical_last(_, _)
run_sweep_critical_last(results, i) ==
    IF i >= Len(results) THEN Found(results[Len(results)][1])
    ELSE IF AtLeastHalf(results[i][3]) THEN Found(results[i][1])
         ELSE run_sweep_critical_last(results, i + 1)

\* invade.py 412-416: the first radius whose success rate is >= 0.5
RECURSIVE run_sweep_critical(_, _)
run_sweep_critical(results, i) ==
    IF i > Len(results) THEN None
    ELSE IF AtLeastHalf(results[i][3]) THEN Found(results[i][1])
         ELSE run_sweep_critical(results, i + 1)

\* strictly increasing parameter values
Increasing(ts) == \A i \in 1..(Len(ts) - 1) : ts[i] < ts[i + 1]

\* the ordered samples handed to find_critical_point
SampleSets ==
    UNION { { [i \in 1..n |-> <<ts[i], cs[i]>>] :
                ts \in {q \in [1..n -> 1..MaxParam] : Increasing(q)},
                cs \in [1..n -> Metrics] } : n \in 0..MaxSamples }

SweepSizes == { <<3, 1>>, <<4, 1>>, <<3, 3>> }

\* the rounds per match run_sweep is called with
SweepRounds == {1, 5}

SweepCalls ==
    { [op |-> "run_sweep", width |-> size[1], height |-> size[2],
       invader_cls |-> cls, max_radius |-> mr, n_seeds |-> ns,
       rounds_per_match |-> rounds, generations |-> MaxCeiling] :
         size \in SweepSizes, cls \in INVADER_STRATEGIES,
         mr \in 0..MaxRadius, ns \in 1..MaxSeeds, rounds \in SweepRounds }

InitSweep ==
    /\ MatchIdle /\ GridIdle /\ RunIdle
    /\ rng = Seed(0)
    /\ call \in { [op |-> "find_critical_point", data |-> d] :
                      d \in SampleSets } \cup SweepCalls
    /\ outcome = [kind |-> "none"]

SweepFrame ==
    /\ UNCHANGED rng /\ UNCHANGED call
    /\ UNCHANGED matchVars /\ UNCHANGED gridVars /\ UNCHANGED runVars

\* explore.py 407 / 450: crit = find_critical_point(data)
explore_find_critical_point ==
    /\ call.op = "find_critical_point" /\ outcome.kind = "none"
    /\ outcome' = find_critical_point(call.data)
    /\ SweepFrame

\* invade.run_sweep: the sweep over the radii 0..max_radius, then the
\* search for the critical radius
run_sweep ==
    /\ call.op = "run_sweep" /\ outcome.kind = "none"
    /\ \E results \in {[i \in 1..(call.max_radius + 1) |->
                          sweep_row(call, i - 1)]} :
           outcome' = [run_sweep_critical(results, 1)
                           EXCEPT !.kind = "return"]
                      @@ [results |-> results]
    /\ SweepFrame

NextSweep == explore_find_critical_point \/ run_sweep

SpecSweep == InitSweep /\ [][NextSweep]_vars

----------------------------------------------------------------------------
(* C18, C19: what the critical-point finders report (SpecSweep)            *)

\* the adjacent pairs (i, i + 1) of samples whose metric goes from >= 0.5
\* to < 0.5
DownBrackets(data) ==
    {i \in 1..(Len(data) - 1) : data[i][2] >= Half /\ data[i + 1][2] < Half}

\* the adjacent pairs of sweep rows whose success rate goes from < 0.5 to
\* >= 0.5
UpBrackets(results) ==
    {i \in 1..(Len(results) - 1) :
        ~AtLeastHalf(results[i][3]) /\ AtLeastHalf(results[i + 1][3])}

Least(S) == CHOOSE i \in S : \A j \in S : i <= j

FinderReturned == call.op = "find_critical_point" /\ outcome.kind = "return"
SweepReturned == call.op = "run_sweep" /\ outcome.kind = "return"

\* the samples of the spec's example: (1, 0.8), (2, 0.6), (3, 0.3)
ExampleSamples == << <<1, 8>>, <<2, 6>>, <<3, 3>> >>

\* C18: find_critical_point picks the first adjacent pair of samples whose
\* metric goes from >= 0.5 to < 0.5 and returns the parameter, between the
\* two samples, at which the line through them equals 0.5; for the samples
\* (1, 0.8), (2, 0.6), (3, 0.3) that is 2 + (0.6 - 0.5) / (0.6 - 0.3) =
\* 7/3, between 2 and 3.
C18_CriticalPoint ==
    /\ (FinderReturned /\ DownBrackets(call.data) # {}) =>
           LET i  == Least(DownBrackets(call.data))
               t1 == call.data[i][1]
               c1 == call.data[i][2]
               t2 == call.data[i + 1][1]
               c2 == call.data[i + 1][2]
           IN  /\ outcome.found
               /\ LET n == outcome.value[1]
                      d == outcome.value[2]
                  IN  /\ d > 0
                      /\ t1 * d <= n /\ n <= t2 * d
                      /\ c1 * d * (t2 - t1) + (c2 - c1) * (n - t1 * d)
                           = Half * d * (t2 - t1)
    /\ (FinderReturned /\ call.data = ExampleSamples) =>
           /\ outcome.found
           /\ 3 * outcome.value[1] = 7 * outcome.value[2]

\* the finder has returned for the example
C18_Witness ==
    /\ FinderReturned /\ call.data = ExampleSamples
    /\ outcome.found /\ outcome.value = <<7, 3>>

\* C19 as stated: when no adjacent pair of samples brackets 0.5 in the
\* finder's direction, the finder (find_critical_point, and the critical
\* radius search of run_sweep) reports not-found and never a number.
C19_NoTransition ==
    /\ (FinderReturned /\ DownBrackets(call.data) = {}) => ~outcome.found
    /\ (SweepReturned /\ UpBrackets(outcome.results) = {}) => ~outcome.found

\* C19 amended: find_critical_point reports a number exactly when some
\* adjacent pair goes from >= 0.5 to < 0.5, and not-found otherwise;
\* run_sweep reports not-found exactly when no radius has a success rate
\* >= 0.5, and otherwise the first such radius, also when that is the first
\* radius of the sweep and no pair brackets 0.5.
C19_NoTransitionPerFinder ==
    /\ FinderReturned => (outcome.found <=> DownBrackets(call.data) # {})
    /\ SweepReturned =>
           LET hits == {i \in 1..Len(outcome.results) :
                           AtLeastHalf(outcome.results[i][3])}
           IN  /\ outcome.found <=> hits # {}
               /\ outcome.found =>
                      outcome.value = outcome.results[Least(hits)][1]

\* a sweep over at least two radii none of which invades: not-found
C19_Witness ==
    /\ SweepReturned /\ Len(outcome.results) >= 2
    /\ ~outcome.found
    /\ \A i \in 1..Len(outcome.results) :
           ~AtLeastHalf(outcome.results[i][3])

----------------------------------------------------------------------------
(* The entry points, called with configurations that include unknown       *)
(* strategy keys and non-positive sizes, rounds and generations:           *)
(* main of invade.py (animate mode), explore.run_simulation and the        *)
(* constructor of SpatialGrid.                                             *)

\* invade.py 59-66: INVADER_STRATEGIES, key to class
INVADER_KEYS ==
    [tft |-> "Tit for Tat", gtft |-> "Generous TFT", grudger |-> "Grudger",
     pavlov |-> "Pavlov", cooperate |-> "Always Cooperate",
     tft2 |-> "Tit for Two Tats"]

\* invade.py 600-607: main runs run_animated with generations=50 and the
\* default rounds_per_match=8
main_generations == 50
main_rounds == 8

\* invade.run_animated, run to its end.  acc.gen is the loop index,
\* acc.steps the Evolution Steps executed.
RECURSIVE run_animated_loop(_, _, _, _, _)
run_animated_loop(acc, w, h, rounds, gens) ==
    IF acc.gen > gens \/ acc.done THEN acc
    ELSE IF w * h = 0
    THEN \* pct = count / total_cells * 100
         [acc EXCEPT !.done = TRUE, !.raised = TRUE]
    ELSE IF acc.gen >= gens
    THEN [acc EXCEPT !.gen = @ + 1]
    ELSE LET after(st, count) ==
                 LET same == count = acc.prev_count
                     stable_now == IF same THEN acc.stable + 1 ELSE 0
                     broke == same /\ stable_now >= 3 /\ acc.gen > 3
                 IN  [grid |-> st.grid, rng |-> st.rng, gen |-> acc.gen + 1,
                      steps |-> acc.steps + 1,
                      prev_count |-> IF broke THEN acc.prev_count ELSE count,
                      stable |-> stable_now, done |-> broke,
                      raised |-> FALSE]
         IN  run_animated_loop(
                 CHOOSE a \in
                     { after(st, count_cooperators(st.grid, w, h)) :
                         st \in {evolution_step("invade", acc.grid, w, h,
                                                rounds, 5, acc.rng)} } : TRUE,
                 w, h, rounds, gens)

run_animated(w, h, invader_cls, radius, rounds, gens, r) ==
    LET made == invade_make_grid(w, h, invader_cls, radius) IN
    run_animated_loop(
        [grid |-> made.grid, rng |-> r, gen |-> 0, steps |-> 0,
         prev_count |-> made.invader_count, stable |-> 0, done |-> FALSE,
         raised |-> FALSE],
        w, h, rounds, gens)

\* explore.run_simulation from the filled grid on, run to its end
RECURSIVE run_simulation_loop(_, _, _, _, _, _)
run_simulation_loop(acc, w, h, rounds, t, gens) ==
    IF acc.gen >= gens \/ acc.done THEN acc
    ELSE LET after(st, current) ==
                 LET same == acc.has_prev /\ current = acc.prev_census
                     stable_now == IF same THEN acc.stable_count + 1 ELSE 0
                     broke == same /\ stable_now >= 3
                 IN  [grid |-> st.grid, rng |-> st.rng, gen |-> acc.gen + 1,
                      has_prev |-> TRUE,
                      prev_census |->
                          IF broke THEN acc.prev_census ELSE current,
                      stable_count |-> stable_now, done |-> broke]
         IN  run_simulation_loop(
                 CHOOSE a \in
                     { after(st, census(st.grid, w, h)) :
                         st \in {evolution_step("explore", acc.grid, w, h,
                                                rounds, t, acc.rng)} } : TRUE,
                 w, h, rounds, t, gens)

\* the sizes, rounds and generations the entry points are called with
ConfigSides == {-2, 0, 1, 3}
ConfigRounds == {-1, 0, 1}
ConfigGenerations == {-1, 0, 2}

\* what the random fill of a constructor yields: a grid of the given size,
\* without cells when the width or the height is not positive
ConfigFills(w, h) ==
    IF w > 0 /\ h > 0
    THEN { fill(w, h, "Always Defect", "Tit for Tat", <<0, 0>>,
                "Always Defect"),
           fill(w, h, "Always Cooperate", "Always Defect", <<0, 0>>,
                "Always Cooperate") }
    ELSE { filled(w, h, NoneCell) }

ConfigCalls ==
    { [op |-> "invade.main", strategy_key |-> k, width |-> w, height |-> h,
       radius |-> rad] :
         k \in (DOMAIN INVADER_KEYS) \cup {"bogus"},
         w \in ConfigSides, h \in ConfigSides, rad \in 0..1 }
    \cup
    UNION { { [op |-> "run_simulation", width |-> w, height |-> h,
               rounds_per_match |-> n, generations |-> g, made |-> f] :
                 n \in ConfigRounds, g \in ConfigGenerations,
                 f \in ConfigFills(w, h) } :
            w \in ConfigSides, h \in ConfigSides }
    \cup
    UNION { { [op |-> "SpatialGrid", width |-> w, height |-> h, made |-> f] :
                 f \in ConfigFills(w, h) } :
            w \in ConfigSides, h \in ConfigSides }

InitConfig ==
    /\ MatchIdle /\ GridIdle /\ RunIdle
    /\ rng = Seed(0)
    /\ call \in ConfigCalls
    /\ outcome = [kind |-> "none"]

ConfigFrame ==
    /\ UNCHANGED call /\ UNCHANGED prev_grid
    /\ UNCHANGED matchVars /\ UNCHANGED runVars

\* the grid, its size and the number of Evolution Steps executed on it
Built(e, w, h, rounds, g, steps, r) ==
    /\ engine' = e /\ width' = w /\ height' = h
    /\ rounds_per_match' = rounds /\ temptation' = 5
    /\ grid' = g /\ scores' = filled(w, h, 0)
    /\ generation' = steps /\ pc' = "score"
    /\ rng' = r

\* invade.py 547-608: main, without --sweep and --compare
invade_main ==
    /\ call.op = "invade.main" /\ outcome.kind = "none"
    /\ IF call.strategy_key \notin DOMAIN INVADER_KEYS
       THEN /\ outcome' = [kind |-> "rejected",
                           message |-> "Unknown strategy"]
            /\ UNCHANGED gridVars /\ UNCHANGED rng
       ELSE \E fin \in {run_animated(call.width, call.height,
                                     INVADER_KEYS[call.strategy_key],
                                     call.radius, main_rounds,
                                     main_generations, rng)} :
              /\ outcome' = IF fin.raised
                            THEN [kind |-> "raise",
                                  value |-> "ZeroDivisionError"]
                            ELSE [kind |-> "return"]
              /\ Built("invade", call.width, call.height, main_rounds,
                       fin.grid, fin.steps, fin.rng)
    /\ ConfigFrame

\* explore.py 176-209: run_simulation
explore_run_simulation ==
    /\ call.op = "run_simulation" /\ outcome.kind = "none"
    /\ \E fin \in {run_simulation_loop(
                       [grid |-> call.made, rng |-> rng, gen |-> 0,
                        has_prev |-> FALSE, prev_census |-> <<>>,
                        stable_count |-> 0, done |-> FALSE],
                       call.width, call.height, call.rounds_per_match, 5,
                       call.generations)} :
         /\ outcome' = [kind |-> "return",
                        value |-> census(fin.grid, call.width, call.height)]
         /\ Built("explore", call.width, call.height, call.rounds_per_match,
                  fin.grid, fin.gen, fin.rng)
    /\ ConfigFrame

\* prisoners-dilemma/spatial.py 73-90: SpatialGrid.__init__
SpatialGrid_init ==
    /\ call.op = "SpatialGrid" /\ outcome.kind = "none"
    /\ outcome' = [kind |-> "return"]
    /\ Built("SpatialGrid", call.width, call.height, 0, call.made, 0, rng)
    /\ ConfigFrame

NextConfig == invade_main \/ explore_run_simulation \/ SpatialGrid_init

SpecConfig == InitConfig /\ [][NextConfig]_vars

----------------------------------------------------------------------------
(* C20: rejection of configuration errors (SpecConfig)                     *)

HasField(r, f) == f \in DOMAIN r

\* the configuration of the call has an unknown strategy key, a
\* non-positive width or height, or a non-positive rounds or generations
ConfigurationError ==
    \/ HasField(call, "strategy_key")
         /\ call.strategy_key \notin DOMAIN INVADER_KEYS
    \/ HasField(call, "width") /\ call.width <= 0
    \/ HasField(call, "height") /\ call.height <= 0
    \/ HasField(call, "rounds_per_match") /\ call.rounds_per_match <= 0
    \/ HasField(call, "generations") /\ call.generations <= 0

EntryPoints == {"invade.main", "run_simulation", "SpatialGrid"}

\* C20: an unknown strategy key, a non-positive grid width or height, or a
\* non-positive rounds or generations value is reported to the caller
\* before any grid is built or any Evolution Step runs: the call ends as
\* rejected, with no grid and no step.
C20_ConfigRejected ==
    (call.op \in EntryPoints /\ outcome.kind # "none" /\ ConfigurationError)
        => /\ outcome.kind = "rejected"
           /\ engine = "none" /\ grid = <<>>
           /\ generation = 0

----------------------------------------------------------------------------
(* The seeded trials of explore.py: make_grid, run_simulation and          *)
(* run_averaged, computed on the process-wide generator rng.               *)

\* explore.py 68-71
NICE_STRATEGIES ==
    {"Tit for Tat", "Generous TFT", "Tit for Two Tats", "Pavlov",
     "Always Cooperate", "Soft Majority"}

\* the seed argument: None, or an integer
NoSeed == [given |-> FALSE]
SeedOf(s) == [given |-> TRUE, value |-> s]

\* random.choice(seq) on a list of one or two classes: one draw
random_choice(seq, r) ==
    [value |-> seq[IF Len(seq) > 1 /\ rng_draw(r) THEN 2 ELSE 1],
     rng |-> rng_next(r)]

\* explore.py 96-103: the fill of make_grid: one random.choice per cell, row
\* by row
make_grid_fill(w, h, strategy_classes, r) ==
    LET RECURSIVE cells(_)
        cells(acc) ==
            IF acc.i > cell_count(w, h) THEN acc
            ELSE LET c == random_choice(strategy_classes, acc.rng) IN
                 cells([i |-> acc.i + 1, rng |-> c.rng,
                        picked |-> Append(acc.picked, c.value)])
        made == cells([i |-> 1, rng |-> r, picked |-> <<>>])
    IN  [grid |-> [y \in 0..(h - 1) |-> [x \in 0..(w - 1) |->
                      new(made.picked[y * w + x + 1])]],
         rng |-> made.rng]

\* a make_grid that never seeds the generator
explore_make_grid_unseeded(w, h, strategy_classes, seed, r) ==
    make_grid_fill(w, h, strategy_classes, r)

\* explore.py 92-103: make_grid; random.seed(seed) when a seed is given,
\* then the fill
explore_make_grid(w, h, strategy_classes, seed, r) ==
    make_grid_fill(w, h, strategy_classes,
                   IF seed.given THEN Seed(seed.value) ELSE r)

\* explore.py 167-173: cooperation_fraction, as the pair (nice, total);
\* 0.0 for an empty census
cooperation_fraction(counts) ==
    IF census_total(counts) = 0 THEN <<0, 1>>
    ELSE <<SumOver(counts, DOMAIN counts \cap NICE_STRATEGIES),
           census_total(counts)>>

\* explore.py 176-209: run_simulation on the generator r
run_simulation(t, strategy_classes, w, h, rounds, gens, seed, r) ==
    CHOOSE res \in
        { [coop |-> cooperation_fraction(census(fin.grid, w, h)),
           final |-> census(fin.grid, w, h), rng |-> fin.rng] :
          fin \in { run_simulation_loop(
                        [grid |-> made.grid, rng |-> made.rng, gen |-> 0,
                         has_prev |-> FALSE, prev_census |-> <<>>,
                         stable_count |-> 0, done |-> FALSE],
                        w, h, rounds, t, gens) :
                    made \in {explore_make_grid(w, h, strategy_classes,
                                                seed, r)} } } : TRUE

\* explore.py 212-218: run_averaged; trial i runs with seed 42 + 7 i.  The
\* average is the pair (sum of the nice counts, n_seeds * cells).
first_seed == 42
seed_stride == 7

RECURSIVE run_averaged_from(_, _, _, _, _, _, _, _)
run_averaged_from(acc, t, strategy_classes, n_seeds, w, h, rounds, gens) ==
    IF acc.i >= n_seeds THEN acc
    ELSE run_averaged_from(
             CHOOSE a \in
                 { [i |-> acc.i + 1, total |-> acc.total + res.coop[1],
                    den |-> res.coop[2], rng |-> res.rng] :
                   res \in {run_simulation(
                                t, strategy_classes, w, h, rounds, gens,
                                SeedOf(first_seed + acc.i * seed_stride),
                                acc.rng)} } : TRUE,
             t, strategy_classes, n_seeds, w, h, rounds, gens)

run_averaged(t, strategy_classes, n_seeds, w, h, rounds, gens, r) ==
    CHOOSE res \in
        { [coop |-> <<fin.total, n_seeds * fin.den>>, rng |-> fin.rng] :
          fin \in {run_averaged_from([i |-> 0, total |-> 0, den |-> 1,
                                      rng |-> r],
                                     t, strategy_classes, n_seeds, w, h,
                                     rounds, gens)} } : TRUE

----------------------------------------------------------------------------
(* Interrupted runs: run_spatial of prisoners-dilemma/spatial.py, which    *)
(* catches KeyboardInterrupt around its loop, and the sweep of main of     *)
(* explore.py, where the interrupt is caught outside main.                 *)

\* prisoners-dilemma/spatial.py 270-274
Init_run_spatial ==
    /\ InitRunCommon
    /\ loop = "run_spatial" /\ engine = "SpatialGrid"
    /\ temptation = 5
    /\ grid \in RunFills(width, height)
    /\ prev_grid = grid /\ scores = filled(width, height, 0)
    /\ rng \in GridSeeds(grid, width, height)
    /\ prev_census = <<>>
    /\ snapshots = <<census(grid, width, height)>>

\* the sweeps main of explore.py is run with
AbortTValues == { <<5>>, <<5, 7>>, <<3, 5, 7>> }
AbortClasses ==
    { <<"Always Cooperate", "Always Defect">>,
      <<"Tit for Tat", "Always Defect">>,
      <<"Random", "Always Defect">> }
AbortSizes == { <<3, 1>>, <<3, 3>> }

\* explore.py 333-384: main up to the sweep of one strategy set
Init_explore_main ==
    /\ MatchIdle /\ GridIdle
    /\ loop = "explore.main" /\ run_pc = "loop"
    /\ gen = 0 /\ stable = 0 /\ prev_census = <<>>
    /\ snapshots = <<>>
    /\ call \in { [op |-> "explore.main", t_values |-> tv,
                   strategy_classes |-> cl, width |-> size[1],
                   height |-> size[2], n_seeds |-> n] :
                  tv \in AbortTValues, cl \in AbortClasses,
                  size \in AbortSizes, n \in 1..MaxSeeds }
    /\ generations = Len(call.t_values)
    /\ outcome = [kind |-> "none"]
    /\ rng \in Alternating

InitAbort == Init_run_spatial \/ Init_explore_main

AbortRunFrame ==
    /\ UNCHANGED <<engine, width, height, rounds_per_match, temptation,
                   loop, generations, prev_census, stable>>
    /\ UNCHANGED matchVars /\ UNCHANGED call

\* spatial.py 279-311: one frame is rendered; the step follows unless this
\* is the last frame
run_spatial_render ==
    /\ loop = "run_spatial" /\ run_pc = "loop"
    /\ gen < generations
    /\ IF gen < generations - 1
       THEN run_pc' = "scores" /\ gen' = gen
       ELSE run_pc' = "loop" /\ gen' = gen + 1
    /\ UNCHANGED <<rng, snapshots, outcome>>
    /\ UNCHANGED <<grid, scores, prev_grid, generation, pc>>
    /\ AbortRunFrame

\* spatial.py 145: scores = self.compute_scores(rounds_per_match)
run_spatial_step_scores ==
    /\ loop = "run_spatial" /\ run_pc = "scores"
    /\ \E res \in {compute_scores("SpatialGrid", grid, width, height,
                                  rounds_per_match, temptation, rng)} :
           /\ grid' = res.grid
           /\ scores' = res.scores
           /\ rng' = res.rng
    /\ run_pc' = "imitate"
    /\ UNCHANGED <<gen, snapshots, outcome, prev_grid, generation, pc>>
    /\ AbortRunFrame

\* spatial.py 147-164: new_grid is built and becomes self.grid
run_spatial_step_imitate ==
    /\ loop = "run_spatial" /\ run_pc = "imitate"
    /\ prev_grid' = grid
    /\ grid' = update("SpatialGrid", grid, scores, width, height)
    /\ run_pc' = "count"
    /\ UNCHANGED <<rng, gen, snapshots, outcome, scores, generation, pc>>
    /\ AbortRunFrame

\* spatial.py 165: self.generation += 1
run_spatial_step_count ==
    /\ loop = "run_spatial" /\ run_pc = "count"
    /\ generation' = generation + 1
    /\ run_pc' = "record"
    /\ UNCHANGED <<rng, gen, snapshots, outcome, grid, scores, prev_grid,
                   pc>>
    /\ AbortRunFrame

\* spatial.py 168: self.stats_history.append(self.census()); the loop goes
\* to its next frame
run_spatial_step_record ==
    /\ loop = "run_spatial" /\ run_pc = "record"
    /\ snapshots' = Append(snapshots, census(grid, width, height))
    /\ gen' = gen + 1
    /\ run_pc' = "loop"
    /\ UNCHANGED <<rng, outcome, grid, scores, prev_grid, generation, pc>>
    /\ AbortRunFrame

\* spatial.py 316-337: the final report: the grid, the census
\* stats_history[-1] with grid.generation, and the history
final_report ==
    [kind |-> "return", grid |-> grid, census |-> Last(snapshots),
     generation |-> generation, reported |-> snapshots]

\* the loop of run_spatial has ended; the final report follows
run_spatial_report ==
    /\ loop = "run_spatial" /\ run_pc = "loop"
    /\ gen >= generations
    /\ outcome' = final_report
    /\ run_pc' = "returned"
    /\ UNCHANGED <<rng, gen, snapshots>> /\ UNCHANGED gridVars
    /\ AbortRunFrame

\* spatial.py 313-314: KeyboardInterrupt anywhere in the loop of run_spatial
\* is caught and passed; the final report follows
run_spatial_KeyboardInterrupt ==
    /\ loop = "run_spatial"
    /\ run_pc \in {"loop", "scores", "imitate", "count", "record"}
    /\ gen < generations
    /\ outcome' = final_report
    /\ run_pc' = "interrupted"
    /\ UNCHANGED <<rng, gen, snapshots>> /\ UNCHANGED gridVars
    /\ AbortRunFrame

\* explore.py 385-402: one sample of the sweep; data.append((t, coop)) and
\* the progress line is rewritten in place
explore_main_sample ==
    /\ loop = "explore.main" /\ run_pc = "loop"
    /\ gen < Len(call.t_values)
    /\ \E res \in {run_averaged(call.t_values[gen + 1],
                                call.strategy_classes, call.n_seeds,
                                call.width, call.height, MaxGridRounds,
                                MaxGenerations, rng)} :
           /\ snapshots' = Append(snapshots,
                                  <<call.t_values[gen + 1], res.coop>>)
           /\ rng' = res.rng
    /\ gen' = gen + 1
    /\ UNCHANGED <<run_pc, outcome>> /\ UNCHANGED gridVars
    /\ AbortRunFrame

\* explore.py 404-431: the sweep is complete; the summary and the phase
\* diagram show every sample of data
explore_main_summary ==
    /\ loop = "explore.main" /\ run_pc = "loop"
    /\ gen >= Len(call.t_values)
    /\ outcome' = [kind |-> "return", reported |-> snapshots]
    /\ run_pc' = "returned"
    /\ UNCHANGED <<rng, gen, snapshots>> /\ UNCHANGED gridVars
    /\ AbortRunFrame

\* explore.py 483-487: KeyboardInterrupt during the sweep leaves main; the
\* handler prints a newline and the colour reset.  Of data, the terminal
\* holds what the progress line showed last: the latest sample.
explore_KeyboardInterrupt ==
    /\ loop = "explore.main" /\ run_pc = "loop"
    /\ gen < Len(call.t_values)
    /\ outcome' = [kind |-> "return",
                   reported |-> IF snapshots = <<>> THEN <<>>
                                ELSE <<Last(snapshots)>>]
    /\ run_pc' = "interrupted"
    /\ UNCHANGED <<rng, gen, snapshots>> /\ UNCHANGED gridVars
    /\ AbortRunFrame

NextAbort ==
    \/ run_spatial_render
    \/ run_spatial_step_scores
    \/ run_spatial_step_imitate
    \/ run_spatial_step_count
    \/ run_spatial_step_record
    \/ run_spatial_report
    \/ run_spatial_KeyboardInterrupt
    \/ explore_main_sample
    \/ explore_main_summary
    \/ explore_KeyboardInterrupt

SpecAbort == InitAbort /\ [][NextAbort]_vars

----------------------------------------------------------------------------
(* C21: graceful abort (SpecAbort)                                         *)

\* what a run that has ended had completed: the Evolution Steps of
\* run_spatial (its history holds one more entry, the initial census), the
\* samples of the sweep
CompletedEntries == IF loop = "run_spatial" THEN gen + 1 ELSE gen

\* C21: when an interrupt has ended a sweep or an animation, the run ends
\* with a report and not with a failure, and the report holds every
\* generation or sample completed before the interrupt.
C21_GracefulAbort ==
    run_pc = "interrupted"
        => /\ outcome.kind = "return"
           /\ Len(outcome.reported) >= CompletedEntries
           /\ \A i \in 1..CompletedEntries :
                  \E j \in 1..Len(outcome.reported) :
                      outcome.reported[j] = snapshots[i]

\* the animation alone: the interrupted run_spatial reports its history
C21_AnimationReported ==
    (loop = "run_spatial" /\ run_pc = "interrupted")
        => /\ outcome.kind = "return"
           /\ Len(outcome.reported) >= CompletedEntries
           /\ outcome.reported = snapshots

C21_AnimationWitness ==
    /\ loop = "run_spatial" /\ run_pc = "interrupted"
    /\ gen >= 2 /\ generation > gen

----------------------------------------------------------------------------
(* C22: the Score phase under another processing order (SpecGrid)          *)

\* one pairing of the named copy: cell (x, y) against its k-th neighbour
pairing_of(e, acc, w, h, rounds, t, x, y, k) ==
    CASE e = "SpatialGrid" -> SpatialGrid_pairing(acc, w, h, rounds, x, y, k)
      [] e = "Grid"        -> Grid_pairing(acc, w, h, rounds, x, y, k)
      [] e = "invade"      -> invade_pairing(acc, w, h, rounds, x, y, k)
      [] e = "explore"     -> explore_pairing(acc, w, h, rounds, t, x, y, k)

\* the pairings (x, y, k) of the score loops, played in the given order
RECURSIVE pairings_in_order(_, _, _, _, _, _, _)
pairings_in_order(e, acc, w, h, rounds, t, order) ==
    IF acc.i >= Len(order) THEN acc
    ELSE pairings_in_order(
             e,
             pairing_of(e, acc, w, h, rounds, t, order[acc.i + 1][1],
                        order[acc.i + 1][2], order[acc.i + 1][3]),
             w, h, rounds, t, order)

\* the opening moves of the fast path of SpatialGrid, collected with the
\* cells visited in the given order
RECURSIVE moves_in_order(_, _, _, _)
moves_in_order(acc, w, h, order) ==
    IF acc.i > Len(order) THEN acc
    ELSE LET x == order[acc.i][1]
             y == order[acc.i][2]
             c == choose(at(acc.grid, w, h, x, y), <<>>, <<>>, acc.rng)
         IN  moves_in_order(
                 [grid  |-> [acc.grid EXCEPT ![y][x] = c.s],
                  moves |-> [acc.moves EXCEPT ![y][x] = c.move],
                  rng   |-> c.rng,
                  i     |-> acc.i + 1], w, h, order)

\* the 8 pairings of every cell: the cells in the order cells, each cell's
\* neighbours first to last, or last to first when backwards
PairingOrder(cells, backwards) ==
    [i \in 1..(Len(cells) * 8) |->
        LET c == cells[((i - 1) \div 8) + 1]
            k == ((i - 1) % 8) + 1
        IN  <<c[1], c[2], IF backwards THEN 9 - k ELSE k>>]

\* the score grid of the named copy with the cells processed in the order
\* cells
scores_in_order(e, g, w, h, rounds, t, r, cells, backwards) ==
    IF e = "SpatialGrid" /\ rounds = 1
    THEN LET m == moves_in_order(
                      [grid |-> g, moves |-> filled(w, h, FALSE), rng |-> r,
                       i |-> 1], w, h, cells)
         IN  [y \in 0..(h - 1) |-> [x \in 0..(w - 1) |->
                 SpatialGrid_fast_sum(m.moves, w, h, x, y, 1)]]
    ELSE pairings_in_order(e, [grid |-> g, scores |-> filled(w, h, 0),
                               rng |-> r, i |-> 0],
                           w, h, rounds, t,
                           PairingOrder(cells, backwards)).scores

\* a Score phase is taken
ScoreStep == pc = "score" /\ pc' = "update"

\* the order of the code gives the scores of the code
C22_OrderOfTheCode ==
    [][ScoreStep =>
        scores_in_order(engine, grid, width, height, rounds_per_match,
                        temptation, rng, RowMajor(width, height), FALSE)
          = scores']_vars

\* C22: the score grid of a Score phase depends on the grid only: with the
\* cells, and each cell's 8 neighbour matches, processed in any other order
\* the same score grid results.
C22_ParallelSafeScores ==
    [][ScoreStep =>
        \A cells \in CellOrders(width, height) \cup {RowMajor(width, height)},
           backwards \in BOOLEAN :
            scores_in_order(engine, grid, width, height, rounds_per_match,
                            temptation, rng, cells, backwards)
              = scores']_vars

\* on a grid none of whose cells draws from the generator the order does
\* not matter
C22_DeterministicScores ==
    [][(ScoreStep /\ Deterministic(grid, width, height)) =>
        \A cells \in CellOrders(width, height) \cup {RowMajor(width, height)},
           backwards \in BOOLEAN :
            scores_in_order(engine, grid, width, height, rounds_per_match,
                            temptation, rng, cells, backwards)
              = scores']_vars

----------------------------------------------------------------------------
(* Seeded trials of explore.run_simulation, one after the other on the     *)
(* process-wide generator, and a draw made on that generator by a trial    *)
(* running alongside.                                                      *)

TrialClasses ==
    { <<"Random", "Always Defect">>,
      <<"Random", "Always Cooperate">>,
      <<"Generous TFT", "Always Defect">>,
      <<"Tit for Tat", "Always Defect">> }
TrialSizes == { <<3, 1>>, <<3, 3>> }

\* the calls run_averaged makes: seed 42 + 7 i
TrialCalls ==
    { [op |-> "run_simulation", temptation |-> t, strategy_classes |-> cl,
       width |-> size[1], height |-> size[2], rounds_per_match |-> n,
       generations |-> g, seed |-> first_seed + i * seed_stride] :
      t \in Temptations, cl \in TrialClasses, size \in TrialSizes,
      n \in 1..MaxGridRounds, g \in 1..MaxGenerations,
      i \in 0..(MaxSeeds - 1) }

\* a trial is about to start; the generator is in the state earlier trials
\* left it in
InitTrials ==
    /\ MatchIdle /\ GridIdle
    /\ loop = "run_simulation" /\ run_pc = "make_grid"
    /\ generations = 0 /\ gen = 0 /\ stable = 0
    /\ prev_census = <<>> /\ snapshots = <<>>
    /\ call \in TrialCalls
    /\ outcome = [kind |-> "none"]
    /\ rng \in RngStates

\* explore.py 189-192: grid = make_grid(..., seed=seed); prev_census = None;
\* stable_count = 0
trial_make_grid ==
    /\ loop = "run_simulation" /\ run_pc = "make_grid"
    /\ \E made \in {explore_make_grid(call.width, call.height,
                                      call.strategy_classes,
                                      SeedOf(call.seed), rng)} :
           /\ grid' = made.grid
           /\ prev_grid' = made.grid
           /\ rng' = made.rng
           /\ snapshots' = <<census(made.grid, call.width, call.height)>>
    /\ engine' = "explore"
    /\ width' = call.width /\ height' = call.height
    /\ rounds_per_match' = call.rounds_per_match
    /\ temptation' = call.temptation
    /\ scores' = filled(call.width, call.height, 0)
    /\ generation' = 0 /\ pc' = "score"
    /\ generations' = call.generations
    /\ gen' = 0 /\ stable' = 0 /\ prev_census' = <<>>
    /\ run_pc' = "loop"
    /\ UNCHANGED <<loop, call, outcome>> /\ UNCHANGED matchVars

\* explore.py 208-209: final = census(grid); return
\* cooperation_fraction(final), final
trial_return ==
    /\ loop = "run_simulation" /\ run_pc \in {"break", "exhausted"}
    /\ outcome' = [kind |-> "return",
                   coop |-> cooperation_fraction(
                                census(grid, width, height)),
                   final |-> census(grid, width, height)]
    /\ run_pc' = "returned"
    /\ UNCHANGED <<rng, loop, generations, gen, prev_census, stable,
                   snapshots, call>>
    /\ UNCHANGED gridVars /\ UNCHANGED matchVars

\* explore.py 215-216: the next trial of the loop of run_averaged, or of
\* the next sample of the sweep
trial_next ==
    /\ loop = "run_simulation" /\ run_pc = "returned"
    /\ call' \in TrialCalls
    /\ outcome' = [kind |-> "none"]
    /\ run_pc' = "make_grid"
    /\ UNCHANGED <<rng, loop, generations, gen, prev_census, stable,
                   snapshots>>
    /\ UNCHANGED gridVars /\ UNCHANGED matchVars

\* strategies.py 77 and 234: a cell of a trial running alongside draws from
\* the generator of the random module before an Evolution Step of this
\* trial
alongside_draw ==
    /\ loop = "run_simulation" /\ run_pc = "loop"
    /\ gen < generations
    /\ rng' = rng_next(rng)
    /\ UNCHANGED <<loop, generations, gen, prev_census, stable, snapshots,
                   run_pc>>
    /\ UNCHANGED gridVars /\ UNCHANGED matchVars /\ UNCHANGED callVars

NextTrialsSequential ==
    \/ trial_make_grid
    \/ run_simulation_iteration
    \/ loop_exhausted
    \/ trial_return
    \/ trial_next

NextTrials == NextTrialsSequential \/ alongside_draw

\* trials that run one after the other only
SpecTrialsSequential == InitTrials /\ [][NextTrialsSequential]_vars

SpecTrials == InitTrials /\ [][NextTrials]_vars

----------------------------------------------------------------------------
(* C23: reproducible seeded trials (SpecTrials)                            *)

\* the result of the call computed on its own, from the seed
OnItsOwn ==
    run_simulation(call.temptation, call.strategy_classes, call.width,
                   call.height, call.rounds_per_match, call.generations,
                   SeedOf(call.seed), Seed(0))

\* C23: a trial with a given seed and parameters returns the result
\* determined by the seed and the parameters, whatever trials ran before it
\* or alongside it, also when Random or Generous TFT cells draw during the
\* matches.
C23_ReproducibleTrials ==
    run_pc = "returned"
        => /\ outcome.coop = OnItsOwn.coop
           /\ outcome.final = OnItsOwn.final

\* a trial whose cells draw during the matches has returned, started from a
\* generator state other than the one its seed sets
C23_Witness ==
    /\ run_pc = "returned"
    /\ call.strategy_classes[1] \in {"Random", "Generous TFT"}
    /\ HasClass(prev_grid, width, height, call.strategy_classes[1])
    /\ generation >= 2

----------------------------------------------------------------------------
(* C24: Detective (SpecMatch)                                              *)

\* the opponent defected in none of the 4 opening rounds
NeverDefectedInOpening(theirs) == \A j \in 1..4 : theirs[j]

\* the moves a Detective has made, against the opponent's, and its decision
DetectiveRule(s, mine, theirs) ==
    /\ \A i \in 1..Len(mine) :
           mine[i] = IF i <= 4 THEN <<TRUE, FALSE, TRUE, TRUE>>[i]
                     ELSE IF NeverDefectedInOpening(theirs) THEN FALSE
                     ELSE theirs[i - 1]
    /\ s.exploit = IF Len(mine) <= 4 THEN "None"
                   ELSE IF NeverDefectedInOpening(theirs) THEN "True"
                   ELSE "False"

\* C24: Detective plays cooperate, defect, cooperate, cooperate in rounds
\* 1-4 whatever the opponent does; from round 5 on it defects in every round
\* if the opponent defected in none of the 4 opening rounds, and plays the
\* opponent's previous action otherwise.  The decision is taken once per
\* match, in round 5, and every match starts without one: reset() undoes it.
C24_Detective ==
    /\ m_a.name = "Detective" => DetectiveRule(m_a, history_a, history_b)
    /\ m_b.name = "Detective" => DetectiveRule(m_b, history_b, history_a)

\* the second match of a Detective has returned after 6 rounds of exploiting
\* an opponent that never defected in the opening
C24_Witness ==
    /\ Returned /\ m_played = 2 /\ m_rounds >= 6
    /\ m_a.name = "Detective" /\ m_a.exploit = "True"
    /\ ~history_a[5] /\ ~history_a[6]

\* the other decision: a second match of 6 rounds in which the Detective
\* mirrors an opponent that took up cooperation again
C24_WitnessMirror ==
    /\ Returned /\ m_played = 2 /\ m_rounds >= 6
    /\ m_b.name = "Detective" /\ m_b.exploit = "False"
    /\ history_b[5] # history_b[6]

----------------------------------------------------------------------------
(* make_grid of invade.py, called on its own                               *)

\* the calls of make_grid: every invader of the catalog, grids of up to
\* MaxCoord + 1 cells a side, radii from none of the grid to all of it
SeedingCalls ==
    { [op |-> "make_grid", width |-> w, height |-> h, invader_cls |-> cls,
       radius |-> rad] :
      w \in 1..(MaxCoord + 1), h \in 1..(MaxCoord + 1),
      cls \in INVADER_STRATEGIES, rad \in (-1)..(MaxRadius + 1) }

InitSeeding ==
    /\ MatchIdle /\ GridIdle /\ RunIdle
    /\ rng = Seed(0)
    /\ call \in SeedingCalls
    /\ outcome = [kind |-> "none"]

\* invade.py 71-92: make_grid returns grid, invader_count
invade_make_grid_call ==
    /\ call.op = "make_grid" /\ outcome.kind = "none"
    /\ \E made \in {invade_make_grid(call.width, call.height,
                                     call.invader_cls, call.radius)} :
           /\ outcome' = [kind |-> "return", grid |-> made.grid,
                          invader_count |-> made.invader_count]
           /\ grid' = made.grid
    /\ engine' = "invade"
    /\ width' = call.width /\ height' = call.height
    /\ UNCHANGED <<rng, call, rounds_per_match, temptation, scores,
                   prev_grid, generation, pc>>
    /\ UNCHANGED matchVars /\ UNCHANGED runVars

NextSeeding == invade_make_grid_call

SpecSeeding == InitSeeding /\ [][NextSeeding]_vars

----------------------------------------------------------------------------
(* C25: single-cluster seeding (SpecSeeding)                               *)

\* the L1 distance of cell c to the centre (width // 2, height // 2)
CentreDistance(c) ==
    LET dx == c[1] - (call.width \div 2)
        dy == c[2] - (call.height \div 2)
    IN  (IF dx < 0 THEN 0 - dx ELSE dx) + (IF dy < 0 THEN 0 - dy ELSE dy)

\* C25: make_grid places the invader strategy on exactly the cells whose L1
\* distance to the grid centre (width // 2, height // 2) is at most the
\* radius and Always Defect on every other cell, and the invader count it
\* returns is the number of invader cells of the grid.
C25_SingleClusterSeeding ==
    (call.op = "make_grid" /\ outcome.kind = "return") =>
        /\ \A c \in Cells(call.width, call.height) :
               outcome.grid[c[2]][c[1]].name =
                   IF CentreDistance(c) <= call.radius
                   THEN call.invader_cls ELSE "Always Defect"
        /\ outcome.invader_count =
               Cardinality({c \in Cells(call.width, call.height) :
                              outcome.grid[c[2]][c[1]].name
                                = call.invader_cls})
        /\ outcome.invader_count =
               count_cooperators(outcome.grid, call.width, call.height)

\* a cluster of radius 1 on a 5 x 4 grid: 5 invaders around (2, 2), the
\* corner of the square around the centre a defector
C25_Witness ==
    /\ call.op = "make_grid" /\ outcome.kind = "return"
    /\ call.width = 5 /\ call.height = 4 /\ call.radius = 1
    /\ outcome.invader_count = 5
    /\ outcome.grid[2][3].name = call.invader_cls
    /\ outcome.grid[1][1].name = "Always Defect"

----------------------------------------------------------------------------
(* C26: nice strategies never defect first (SpecMatch)                     *)

NiceStrategies ==
    {"Tit for Tat", "Generous TFT", "Tit for Two Tats", "Pavlov",
     "Always Cooperate", "Soft Majority"}

\* mine holds a cooperation in every round up to and including the first
\* round in which theirs holds a defection
NeverDefectsFirst(mine, theirs) ==
    \A i \in 1..Len(mine) :
        (\A j \in 1..(i - 1) : theirs[j]) => mine[i]

\* C26: in any match against any opponent each of Tit for Tat, Generous
\* TFT, Tit for Two Tats, Pavlov, Always Cooperate and Soft Majority
\* cooperates in every round up to and including the first round in which
\* the opponent defects; two nice strategies cooperate in every round
\* against each other.
C26_NiceNeverDefectFirst ==
    /\ m_a.name \in NiceStrategies => NeverDefectsFirst(history_a, history_b)
    /\ m_b.name \in NiceStrategies => NeverDefectsFirst(history_b, history_a)
    /\ (m_a.name \in NiceStrategies /\ m_b.name \in NiceStrategies) =>
           /\ \A i \in 1..Len(history_a) : history_a[i] /\ history_b[i]
           /\ score_a = 3 * Len(history_a) /\ score_b = 3 * Len(history_b)

\* a returned match of 6 rounds in which Soft Majority met its first
\* defection in round 2, having cooperated up to then, and defected later
C26_Witness ==
    /\ Returned /\ m_rounds >= 6
    /\ m_a.name = "Soft Majority"
    /\ history_b[1] /\ ~history_b[2]
    /\ history_a[1] /\ history_a[2]
    /\ \E i \in 3..Len(history_a) : ~history_a[i]

\* two nice strategies have played 6 rounds against each other
C26_WitnessPair ==
    /\ Returned /\ m_rounds >= 6
    /\ m_a.name = "Pavlov" /\ m_b.name = "Generous TFT"
    /\ score_a = 18

----------------------------------------------------------------------------
(* C27: no strategy reappears (SpecGrid)                                   *)

\* the strategy names of a grid, cell by cell
Names(g) ==
    [y \in 0..(height - 1) |-> [x \in 0..(width - 1) |-> g[y][x].name]]

\* the names held in the previous generation by the cell c and its 8
\* neighbours
NeighbourhoodNames(c) ==
    { prev_grid[Place(c[1], c[2], k)[2]][Place(c[1], c[2], k)[1]].name :
        k \in 0..8 }

\* C27: after an Evolution Step every cell's strategy is one that a cell of
\* its neighbourhood-plus-self held in the previous generation; so the set
\* of names in the census gains no member from one generation to the next,
\* and a grid holding a single strategy is left unchanged by the step.
C27_NoStrategyReappears ==
    Stepped =>
        /\ \A c \in Cells(width, height) :
               grid[c[2]][c[1]].name \in NeighbourhoodNames(c)
        /\ DOMAIN census(grid, width, height)
             \subseteq DOMAIN census(prev_grid, width, height)
        /\ Single(census(prev_grid, width, height))
               => Names(grid) = Names(prev_grid)

\* a step on the 4 x 1 grid, where a cell has a cell outside its
\* neighbourhood, that took a strategy out of the census
C27_Witness ==
    /\ Stepped /\ width = 4
    /\ Cardinality(DOMAIN census(prev_grid, width, height)) = 3
    /\ Cardinality(DOMAIN census(grid, width, height)) = 2

\* a step on a grid of a single strategy
C27_WitnessSingle ==
    /\ Stepped /\ width = 3 /\ height = 3
    /\ Single(census(prev_grid, width, height))
    /\ Names(grid) = Names(prev_grid)

----------------------------------------------------------------------------
(* The four copies of the engine run from the same grids of deterministic  *)
(* strategies, with the standard payoffs.                                  *)

\* the strategies that never draw from the generator
DeterministicClasses == StrategyNames \ {"Random", "Generous TFT"}

CopySizes == { <<4, 1>>, <<3, 3>> }

\* rounds per match: the fast path of SpatialGrid, and matches long enough
\* for Detective and Tit for Two Tats to act on what they have seen
CopyRounds == {1, 5}

\* the grids the copies are started from: one class everywhere, another on
\* the centre cell
InitCopies ==
    /\ MatchIdle /\ RunIdle /\ CallIdle
    /\ engine \in Engines
    /\ \E size \in CopySizes : width = size[1] /\ height = size[2]
    /\ rounds_per_match \in CopyRounds
    /\ temptation = 5
    /\ grid \in { fill(width, height, bg, c1, <<0, 0>>, bg) :
                    bg \in DeterministicClasses, c1 \in DeterministicClasses }
    /\ prev_grid = grid
    /\ scores = filled(width, height, 0)
    /\ generation = 0
    /\ pc = "score"
    /\ rng = Seed(0)

SpecCopies == InitCopies /\ [][NextGrid]_vars

----------------------------------------------------------------------------
(* C28: the four copies of the engine agree (SpecCopies)                   *)

\* C28: from the same grid of deterministic strategies, with the payoffs
\* R=3, S=0, T=5, P=1 and the same rounds per match, SpatialGrid.step,
\* Grid.step, compute_scores + evolve of invade.py and compute_scores +
\* evolve_grid of explore.py produce the same next-generation grid.
C28_CopiesAgree ==
    (Stepped /\ Deterministic(prev_grid, width, height) /\ temptation = 5) =>
        \A e \in Engines \ {engine} :
            evolution_step(e, prev_grid, width, height, rounds_per_match,
                           temptation, rng).grid = grid

\* a step of 5-round matches by SpatialGrid in which a Detective at the
\* centre took over cells of the grid
C28_Witness ==
    /\ Stepped /\ engine = "SpatialGrid" /\ rounds_per_match = 5
    /\ Names(grid) # Names(prev_grid)
    /\ Cardinality({c \in Cells(width, height) :
                       prev_grid[c[2]][c[1]].name = "Detective"}) = 1
    /\ Cardinality({c \in Cells(width, height) :
                       grid[c[2]][c[1]].name = "Detective"}) > 1

----------------------------------------------------------------------------
(* C29: match symmetry (SpecMatch)                                         *)

\* the match just returned, played with the two players in the other order
SwappedMatch == play_match(m_b, m_a, m_rounds, rng)

\* C29: for deterministic strategies a and b and any number of rounds, the
\* score of a in play_match(a, b) is the score of a as second player in
\* play_match(b, a), and likewise for b: each side of a match computes for
\* the other side what the other side's own match computes.
C29_MatchSymmetry ==
    (Returned /\ ~UsesRandom(m_a.name) /\ ~UsesRandom(m_b.name)) =>
        /\ outcome.value.score_a = SwappedMatch.score_b
        /\ outcome.value.score_b = SwappedMatch.score_a
        /\ history_a = SwappedMatch.history_b
        /\ history_b = SwappedMatch.history_a

\* a returned match of 6 rounds between a Detective and a Grudger, in
\* which the two scored differently
C29_Witness ==
    /\ Returned /\ m_rounds >= 6
    /\ m_a.name = "Detective" /\ m_b.name = "Grudger"
    /\ outcome.value.score_a # outcome.value.score_b

----------------------------------------------------------------------------
(* C30: score bounds (SpecGrid)                                            *)

\* the Score phase of the current generation has ended
Scored == pc = "update"

\* C30: after the Score phase with n rounds per match and payoffs
\* T > R = 3 > P = 1 > S = 0, the score of every cell lies between 8 n S
\* and 8 n T, in every generation: the score grid is rebuilt from zero, no
\* score of the generation before is carried over.  On a grid whose cells
\* do not draw from the generator the score of a cell is the sum of its 8
\* matches of this generation.
C30_ScoreBounds ==
    Scored =>
        /\ \A c \in Cells(width, height) :
               /\ ScoreAt(c) >= 8 * rounds_per_match * 0
               /\ ScoreAt(c) <= 8 * rounds_per_match * temptation
        /\ Deterministic(grid, width, height) =>
               \A c \in Cells(width, height) : ScoreAt(c) = FreshScore(c)

\* the Score phase of the second generation on a 3 x 3 grid of cooperators:
\* every cell scores 8 n R again, which added to the scores of the first
\* generation would exceed 8 n T
C30_Witness ==
    /\ Scored /\ generation >= 1
    /\ width = 3 /\ height = 3 /\ temptation = 5
    /\ \A c \in Cells(width, height) :
           ScoreAt(c) = 8 * rounds_per_match * 3

\* the upper bound is met: a defector among 8 cooperators scores 8 n T
C30_WitnessBounds ==
    /\ Scored /\ width = 3 /\ height = 3
    /\ \E c \in Cells(width, height) :
           ScoreAt(c) = 8 * rounds_per_match * temptation

====
